---- MODULE Spec2Model ----
(***************************************************************************)
(* MusicAI: the per-guild playback scheduler of cogs/music.py and the     *)
(* queue classes of services/music_queue.py.                              *)
(*                                                                         *)
(* Four specifications share the queue operators:                          *)
(*   Spec   the Music cog for one guild: commands, play_next, the          *)
(*          completion handler and process_playlist as asyncio tasks that  *)
(*          interleave at their await points                               *)
(*   LSpec  one playlist command on a fresh guild followed to its end:     *)
(*          batches, look-ahead callback, load_next_batch                  *)
(*   QSpec  the MusicQueue of one guild driven method by method            *)
(*   RSpec  the QueueManager over several guilds                           *)
(***************************************************************************)
EXTENDS Integers, Sequences, FiniteSets, TLC

VARIABLES
    queues,          \* QueueManager._queues: guild -> [id, q] (id 0: no entry)
    nextObj,         \* identity of the next MusicQueue() object constructed
    nextCb,          \* the next uuid4 handed out by add_track
    fired,           \* callback id -> number of times the callable was invoked
    ret,             \* what the last QueueManager/MusicQueue call returned
    dequeuedCb,      \* callback ids whose item left the queue through get_next_track
    clearedCb,       \* callback ids whose item was removed by clear
    mq,              \* Spec: the guild's MusicQueue
    lock,            \* Spec: Music._lock, [holder, waiters]
    vc,              \* Spec: ctx.voice_client, "none" or "connected"
    vcPlaying,       \* Spec: voice_client.is_playing()
    vcTrack,         \* Spec: the track the voice client is playing
    completions,     \* Spec: after-callbacks handed to the loop, handler not started
    tasks,           \* Spec: the coroutines in flight
    budget,          \* Spec: commands the users may still issue
    current_players, \* Spec: Music._current_players (guilds with a registered player)
    scheduled,       \* load_next_batch tasks created by a callback, not yet started
    received,        \* the tracks process_playlist appended for the current loader
    attempts,        \* LSpec: per playlist entry, the outcomes of its resolution attempts
    voice_clients    \* GSpec: per guild, the voice client and its pending after-callbacks

qVars == <<queues, nextObj, nextCb, fired, ret, dequeuedCb, clearedCb>>
lVars == <<scheduled, received, attempts>>
oVars == <<mq, lock, vc, vcPlaying, vcTrack, completions, tasks, budget, current_players,
           scheduled, received, attempts, voice_clients>>
vars == <<queues, nextObj, nextCb, fired, ret, dequeuedCb, clearedCb,
          mq, lock, vc, vcPlaying, vcTrack, completions, tasks, budget, current_players,
          scheduled, received, attempts, voice_clients>>

(***************************************************************************)
(* Bounds                                                                  *)
(***************************************************************************)
MaxObj == 3      \* MusicQueue objects constructed in QSpec
MaxQLen == 2     \* queue length in QSpec
MaxCb == 2       \* callbacks registered in QSpec
MaxCmds == 3     \* commands issued in Spec
MaxTasks == 2    \* coroutines in flight at once in Spec
MaxEntries == 2  \* entries of a playlist in Spec

Guilds == {1, 2}    \* guilds known to the QueueManager (RSpec)
QGuild == 1         \* the guild whose MusicQueue QSpec drives
Tracks == {1, 2}
None == 0

(***************************************************************************)
(* services/music_queue.py                                                 *)
(***************************************************************************)
NoLoader ==
    [present |-> FALSE, current_index |-> 0, video_entries |-> <<>>,
     total_tracks |-> 0, is_loading |-> FALSE, url |-> 0]

PlaylistLoader(playlist_url) ==
    [present |-> TRUE, current_index |-> 0, video_entries |-> <<>>,
     total_tracks |-> 0, is_loading |-> FALSE, url |-> playlist_url]

QueueItem(track, callback_id) == [track |-> track, callback_id |-> callback_id]

NewMusicQueue ==
    [queue |-> <<>>, current_track |-> None, is_playing |-> FALSE,
     playlist_processing |-> FALSE, playlist_loader |-> NoLoader, callbacks |-> {}]

\* add_track: on_start says whether a callable was passed, uuid is the fresh id
add_track(q, track, on_start, uuid) ==
    LET callback_id == IF on_start THEN uuid ELSE None
    IN [q EXCEPT !.queue = Append(@, QueueItem(track, callback_id)),
                 !.callbacks = IF callback_id # None THEN @ \cup {callback_id} ELSE @]

get_next_track_propagates(q, outcome) ==
    IF q.queue = <<>>
    THEN [q |-> q, track |-> None, invoked |-> None, raised |-> FALSE]
    ELSE LET queue_item == Head(q.queue)
             has == queue_item.callback_id # None /\ queue_item.callback_id \in q.callbacks
             boom == has /\ outcome = "raises"
         IN [q |-> [q EXCEPT !.queue = Tail(@),
                             !.callbacks = IF has THEN @ \ {queue_item.callback_id} ELSE @],
             track |-> IF boom THEN None ELSE queue_item.track,
             invoked |-> IF has THEN queue_item.callback_id ELSE None,
             raised |-> boom]

get_next_track_silent(q, outcome) ==
    IF q.queue = <<>>
    THEN [q |-> q, track |-> None, invoked |-> None, raised |-> FALSE]
    ELSE LET queue_item == Head(q.queue)
             has == queue_item.callback_id # None /\ queue_item.callback_id \in q.callbacks
         IN [q |-> [q EXCEPT !.queue = Tail(@),
                             !.callbacks = IF has THEN @ \ {queue_item.callback_id} ELSE @],
             track |-> queue_item.track, invoked |-> None, raised |-> FALSE]

\* get_next_track: outcome is what the callable does when called ("ok"/"raises").
\* invoked is the id of the callable that was called (None: none was);
\* raised says whether an exception leaves the method: the try/except of
\* lines 66-70 catches every Exception of the callable.
get_next_track(q, outcome) ==
    IF q.queue = <<>>
    THEN [q |-> q, track |-> None, invoked |-> None, raised |-> FALSE]
    ELSE LET queue_item == Head(q.queue)
             has == queue_item.callback_id # None /\ queue_item.callback_id \in q.callbacks
             caught == outcome = "raises"   \* except Exception, line 68
         IN [q |-> [q EXCEPT !.queue = Tail(@),
                             !.callbacks = IF has THEN @ \ {queue_item.callback_id} ELSE @],
             track |-> queue_item.track,
             invoked |-> IF has THEN queue_item.callback_id ELSE None,
             raised |-> has /\ outcome = "raises" /\ ~caught]

clear_keeps_playing(q) ==
    [q EXCEPT !.queue = <<>>, !.current_track = None,
              !.playlist_loader = NoLoader, !.callbacks = {}]

clear(q) ==
    [q EXCEPT !.queue = <<>>, !.current_track = None, !.is_playing = FALSE,
              !.playlist_loader = NoLoader, !.callbacks = {}]

start_playlist_loading(q, playlist_url) ==
    [q EXCEPT !.playlist_loader = PlaylistLoader(playlist_url),
              !.playlist_processing = TRUE]

finish_playlist_loading(q) == [q EXCEPT !.playlist_processing = FALSE]

is_playlist_complete(q) ==
    IF ~q.playlist_loader.present THEN TRUE
    ELSE q.playlist_loader.current_index >= Len(q.playlist_loader.video_entries)

\* a guild's voice client (ctx.voice_client): none or connected, whether it
\* is playing and what, and the after-callbacks it handed to the loop
NoVoice == [vc |-> "none", playing |-> FALSE, track |-> None, completions |-> <<>>]

\* QueueManager: the dictionary maps a guild to an object; id is its identity
NoEntry == [id |-> 0, q |-> NewMusicQueue]

get_queue_forgets(reg, nxt, guild_id) ==
    IF reg[guild_id].id = 0
    THEN [queues |-> reg, nextObj |-> nxt + 1, id |-> nxt, q |-> NewMusicQueue]
    ELSE [queues |-> reg, nextObj |-> nxt, id |-> reg[guild_id].id, q |-> reg[guild_id].q]

get_queue(reg, nxt, guild_id) ==
    IF reg[guild_id].id = 0
    THEN [queues |-> [reg EXCEPT ![guild_id] = [id |-> nxt, q |-> NewMusicQueue]],
          nextObj |-> nxt + 1, id |-> nxt, q |-> NewMusicQueue]
    ELSE [queues |-> reg, nextObj |-> nxt, id |-> reg[guild_id].id, q |-> reg[guild_id].q]

remove_queue(reg, guild_id) ==
    IF reg[guild_id].id # 0 THEN [reg EXCEPT ![guild_id] = NoEntry] ELSE reg

(***************************************************************************)
(* cogs/music.py: the queue mutations of _process_track and play_next      *)
(***************************************************************************)
\* _process_track without lines 373-374
ProcessTrackEnqueueNoFlag(q, track, position) ==
    LET q1 == IF position # -1
              THEN [q EXCEPT !.queue = SubSeq(@, 1, position) \o <<QueueItem(track, None)>>
                                        \o SubSeq(@, position + 1, Len(@))]
              ELSE add_track(q, track, FALSE, None)
    IN [q |-> q1, should_start_playing |-> ~q1.is_playing]

\* _process_track appending whatever the position
ProcessTrackEnqueueAppends(q, track, position) ==
    LET q1 == add_track(q, track, FALSE, None)
        should_start_playing == ~q1.is_playing
    IN [q |-> [q1 EXCEPT !.is_playing = TRUE],
        should_start_playing |-> should_start_playing]

\* _process_track lines 366-374: position None (-1 here) appends, else inserts
ProcessTrackEnqueue(q, track, position) ==
    LET q1 == IF position # -1
              THEN [q EXCEPT !.queue = SubSeq(@, 1, position) \o <<QueueItem(track, None)>>
                                        \o SubSeq(@, position + 1, Len(@))]
              ELSE add_track(q, track, FALSE, None)
        should_start_playing == ~q1.is_playing
    IN [q |-> [q1 EXCEPT !.is_playing = TRUE],
        should_start_playing |-> should_start_playing]

\* play_next reading the head of the queue without taking it
PlayNextPrepareKeeps(q, outcome) ==
    IF q.queue = <<>>
    THEN [q |-> [q EXCEPT !.is_playing = FALSE, !.current_track = None],
          next_track |-> None, invoked |-> None, raised |-> FALSE]
    ELSE [q |-> [q EXCEPT !.current_track = Head(q.queue).track],
          next_track |-> Head(q.queue).track, invoked |-> None, raised |-> FALSE]

\* play_next lines 140-152, the voice client being connected
PlayNextPrepare(q, outcome) ==
    IF q.queue = <<>>
    THEN [q |-> [q EXCEPT !.is_playing = FALSE, !.current_track = None],
          next_track |-> None, invoked |-> None, raised |-> FALSE]
    ELSE LET r == get_next_track(q, outcome)
         IN IF r.raised
            THEN [q |-> r.q, next_track |-> None, invoked |-> r.invoked, raised |-> TRUE]
            ELSE [q |-> [r.q EXCEPT !.current_track = r.track],
                  next_track |-> r.track, invoked |-> r.invoked, raised |-> FALSE]

(***************************************************************************)
(* cogs/music.py as coroutines.  A task is one coroutine chain (a command  *)
(* or a completion handler together with the play_next calls it awaits);   *)
(* pc names the await at which it is suspended.  Everything between two    *)
(* awaits runs in one step, as it does on the single-threaded event loop.  *)
(***************************************************************************)
PlayTrack == 1      \* the track !play resolves to
PlayNowTrack == 2   \* the track !playnow resolves to
PlaylistTrack(entry) == 2 + entry
PlaylistUrl == 1
BatchSize == 10
LookaheadAt == 8
GuildId == 1

Free ==
    [pc |-> "free", kind |-> "none", nt |-> None, ssp |-> FALSE, err |-> FALSE,
     rep |-> "none", was |-> "none", stale |-> FALSE, res |-> <<>>, i |-> 0,
     added |-> 0, start_idx |-> 0, end_idx |-> 0, amount |-> "none", guild |-> GuildId,
     held_both |-> FALSE]

NewTask(kind, pc) == [Free EXCEPT !.kind = kind, !.pc = pc]

Min(S) == CHOOSE x \in S : \A y \in S : x <= y

FreeSlots == {t \in DOMAIN tasks : tasks[t].pc = "free"}

\* asyncio.Lock: acquire takes a free lock at once, else queues FIFO;
\* release hands the lock to the first waiter.
Acquire(lk, t) ==
    IF lk.holder = 0 THEN [lk EXCEPT !.holder = t]
    ELSE [lk EXCEPT !.waiters = Append(@, t)]

Release(lk) ==
    IF lk.waiters = <<>> THEN [holder |-> 0, waiters |-> <<>>]
    ELSE [holder |-> Head(lk.waiters), waiters |-> Tail(lk.waiters)]

\* what the awaiting caller does when play_next returns: process_playlist
\* goes on with its loop (line 264), every other caller is finished
Return(tk) ==
    IF tk.kind \in {"playlist", "lnb"} THEN [tk EXCEPT !.pc = "pp_rest", !.nt = None]
    ELSE Free

\* play_next lines 127-152 run by t holding the lock lk; spawn counts the
\* load_next_batch task the dequeued item's callback creates (lines 253-255)
PlayNextLocked(t, tk, q, lk, v) ==
    IF v # "connected"
    THEN [mq |-> q, lock |-> lk, task |-> [tk EXCEPT !.pc = "pn_reconnect"], spawn |-> 0]
    ELSE LET r == PlayNextPrepare(q, "ok")
         IN IF r.next_track = None
            THEN [mq |-> r.q, lock |-> Release(lk), task |-> Return(tk), spawn |-> 0]
            ELSE [mq |-> r.q, lock |-> Release(lk),
                  task |-> [tk EXCEPT !.pc = "pn_construct", !.nt = r.next_track],
                  spawn |-> IF r.invoked # None THEN 1 ELSE 0]

\* await self.play_next(ctx): runs to its first real suspension
CallPlayNext(t, tk, q, lk, v) ==
    IF lk.holder = 0
    THEN PlayNextLocked(t, tk, q, [lk EXCEPT !.holder = t], v)
    ELSE [mq |-> q, lock |-> [lk EXCEPT !.waiters = Append(@, t)],
          task |-> [tk EXCEPT !.pc = "pn_wait"], spawn |-> 0]

\* _handle_playback_complete resetting is_playing before it looks at the queue
HandlerDecideResets(t, tk, q, lk, v) ==
    IF q.queue # <<>>
    THEN CallPlayNext(t, tk, [q EXCEPT !.is_playing = FALSE], Release(lk), v)
    ELSE [mq |-> [q EXCEPT !.is_playing = FALSE, !.current_track = None],
          lock |-> Release(lk), task |-> Free, spawn |-> 0]

\* _handle_playback_complete lines 104-119, the notification (if any) sent
HandlerDecide(t, tk, q, lk, v) ==
    IF q.queue # <<>>
    THEN CallPlayNext(t, tk, q, Release(lk), v)
    ELSE [mq |-> [q EXCEPT !.is_playing = FALSE, !.current_track = None],
          lock |-> Release(lk), task |-> Free, spawn |-> 0]

\* _handle_playback_complete lines 96-100 run by t holding the lock
HandlerLocked(t, tk, q, lk, v) ==
    IF tk.err
    THEN [mq |-> q, lock |-> lk, task |-> [tk EXCEPT !.pc = "h_notify"], spawn |-> 0]
    ELSE HandlerDecide(t, tk, q, lk, v)

\* stop line 601 without its is_playing() test
StopAlwaysDisconnects(v, playing) == v = "connected"

\* stop line 601: the transport is stopped and disconnected only when playing
StopShouldDisconnect(v, playing) == v = "connected" /\ playing

\* the tasks whose construction or batch resolution a clear() overtakes
MarkStale(ts) ==
    [t \in DOMAIN ts |->
        IF ts[t].pc \in {"pn_construct", "pp_gather"}
        THEN [ts[t] EXCEPT !.stale = TRUE] ELSE ts[t]]

\* the tenant states of the orchestrator
Idle(q, playing) ==
    q.queue = <<>> /\ ~q.is_playing /\ q.current_track = None /\ ~playing

TenantState(q, playing) ==
    IF Idle(q, playing) THEN "idle"
    ELSE IF playing THEN "playing"
    ELSE "starting"

\* process_playlist appending the first entry of the batch for every result
RECURSIVE AddBatchFirstEntry(_, _, _, _, _, _)
AddBatchFirstEntry(q, res, i, added, start_idx, uuid) ==
    IF i > Len(res) THEN [q |-> q, added |-> added, uuid |-> uuid]
    ELSE IF ~res[i] THEN AddBatchFirstEntry(q, res, i + 1, added, start_idx, uuid)
    ELSE LET track == PlaylistTrack(start_idx + 1)
             lookahead == added = LookaheadAt /\ ~is_playlist_complete(q)
         IN AddBatchFirstEntry(add_track(q, track, lookahead, uuid), res, i + 1, added + 1,
                               start_idx, IF lookahead THEN uuid + 1 ELSE uuid)

\* process_playlist attaching the callback to every entry from the ninth on
RECURSIVE AddBatchEveryLate(_, _, _, _, _, _)
AddBatchEveryLate(q, res, i, added, start_idx, uuid) ==
    IF i > Len(res) THEN [q |-> q, added |-> added, uuid |-> uuid]
    ELSE IF ~res[i] THEN AddBatchEveryLate(q, res, i + 1, added, start_idx, uuid)
    ELSE LET track == PlaylistTrack(start_idx + i)
             lookahead == added >= LookaheadAt /\ ~is_playlist_complete(q)
         IN AddBatchEveryLate(add_track(q, track, lookahead, uuid), res, i + 1, added + 1,
                              start_idx, IF lookahead THEN uuid + 1 ELSE uuid)

\* process_playlist lines 239-268 from result i on (1-based), no play_next
\* being triggered: res[i] says whether entry start_idx + i resolved
RECURSIVE AddBatch(_, _, _, _, _, _)
AddBatch(q, res, i, added, start_idx, uuid) ==
    IF i > Len(res) THEN [q |-> q, added |-> added, uuid |-> uuid]
    ELSE IF ~res[i] THEN AddBatch(q, res, i + 1, added, start_idx, uuid)
    ELSE LET track == PlaylistTrack(start_idx + i)
             lookahead == added = LookaheadAt /\ ~is_playlist_complete(q)
         IN AddBatch(add_track(q, track, lookahead, uuid), res, i + 1, added + 1,
                     start_idx, IF lookahead THEN uuid + 1 ELSE uuid)

\* process_playlist lines 270-299: the cursor update and what follows it; with
\* the loader gone the assignment raises and the except clause runs
FinishBatch(q, end_idx) ==
    IF ~q.playlist_loader.present THEN finish_playlist_loading(q)
    ELSE LET q1 == [q EXCEPT !.playlist_loader.current_index = end_idx]
         IN IF is_playlist_complete(q1) THEN finish_playlist_loading(q1) ELSE q1

\* process_playlist taking one entry less than BatchSize into a batch
BatchEndShort(q) ==
    LET a == q.playlist_loader.current_index + BatchSize - 1
        n == Len(q.playlist_loader.video_entries)
    IN IF a < n THEN a ELSE n

\* process_playlist lines 218-226
BatchEnd(q) ==
    LET a == q.playlist_loader.current_index + BatchSize
        n == Len(q.playlist_loader.video_entries)
    IN IF a < n THEN a ELSE n

(***************************************************************************)
(* QSpec: QueueManager and MusicQueue, one call per step                   *)
(***************************************************************************)
Ret(op, g, id, track, invoked, outcome, raised) ==
    [op |-> op, guild |-> g, id |-> id, track |-> track, invoked |-> invoked,
     outcome |-> outcome, raised |-> raised]

Init ==
    /\ queues = [g \in Guilds |-> NoEntry]
    /\ nextObj = 1
    /\ nextCb = 1
    /\ fired = [c \in 1..MaxCb |-> 0]
    /\ ret = Ret("none", 0, 0, None, None, "ok", FALSE)
    /\ dequeuedCb = {}
    /\ clearedCb = {}
    /\ mq = NewMusicQueue
    /\ lock = [holder |-> 0, waiters |-> <<>>]
    /\ vc = "none"
    /\ vcPlaying = FALSE
    /\ vcTrack = None
    /\ completions = <<>>
    /\ tasks = [t \in 1..MaxTasks |-> Free]
    /\ budget = MaxCmds
    /\ current_players = {}
    /\ scheduled = 0
    /\ received = <<>>
    /\ attempts = <<>>
    /\ voice_clients = [g \in Guilds |-> NoVoice]

\* every use in the cog is queue_manager.get_queue(guild).<method>
Fetch(g) == get_queue(queues, nextObj, g)

\* the handlers of every guild working on one MusicQueue
StoreShared(g, got, q2) == [h \in DOMAIN got.queues |-> [got.queues[h] EXCEPT !.q = q2]]

Store(g, got, q2) == [got.queues EXCEPT ![g].q = q2]

CanFetch(g) == queues[g].id # 0 \/ nextObj <= MaxObj

RGetQueue(g) ==
    /\ CanFetch(g)
    /\ LET got == Fetch(g)
       IN /\ queues' = got.queues
          /\ nextObj' = got.nextObj
          /\ ret' = Ret("get_queue", g, got.id, None, None, "ok", FALSE)
    /\ UNCHANGED <<nextCb, fired, dequeuedCb, clearedCb>>
    /\ UNCHANGED oVars

RRemoveQueue(g) ==
    /\ queues' = remove_queue(queues, g)
    /\ ret' = Ret("remove_queue", g, queues[g].id, None, None, "ok", FALSE)
    /\ UNCHANGED <<nextObj, nextCb, fired, dequeuedCb, clearedCb>>
    /\ UNCHANGED oVars

RAddTrack(g, track, on_start) ==
    /\ CanFetch(g)
    /\ on_start => nextCb <= MaxCb
    /\ LET got == Fetch(g)
       IN /\ Len(got.q.queue) < MaxQLen
          /\ queues' = Store(g, got, add_track(got.q, track, on_start, nextCb))
          /\ nextObj' = got.nextObj
          /\ ret' = Ret("add_track", g, got.id, track, None, "ok", FALSE)
    /\ nextCb' = IF on_start THEN nextCb + 1 ELSE nextCb
    /\ UNCHANGED <<fired, dequeuedCb, clearedCb>>
    /\ UNCHANGED oVars

RProcessTrack(g, track, position) ==
    /\ CanFetch(g)
    /\ LET got == Fetch(g)
       IN /\ Len(got.q.queue) < MaxQLen
          /\ queues' = Store(g, got, ProcessTrackEnqueue(got.q, track, position).q)
          /\ nextObj' = got.nextObj
          /\ ret' = Ret("process_track", g, got.id, track, None, "ok", FALSE)
    /\ UNCHANGED <<nextCb, fired, dequeuedCb, clearedCb>>
    /\ UNCHANGED oVars

RStartPlaylist(g) ==
    /\ CanFetch(g)
    /\ LET got == Fetch(g)
       IN /\ ~got.q.playlist_loader.present
          /\ queues' = Store(g, got, start_playlist_loading(got.q, 1))
          /\ nextObj' = got.nextObj
          /\ ret' = Ret("start_playlist_loading", g, got.id, None, None, "ok", FALSE)
    /\ UNCHANGED <<nextCb, fired, dequeuedCb, clearedCb>>
    /\ UNCHANGED oVars

Bump(f, cb) == IF cb = None THEN f ELSE [f EXCEPT ![cb] = @ + 1]

HeadCb(q) ==
    IF q.queue # <<>> /\ Head(q.queue).callback_id # None
    THEN {Head(q.queue).callback_id} ELSE {}

RGetNextTrack(g, outcome) ==
    /\ CanFetch(g)
    /\ LET got == Fetch(g)
           r == get_next_track(got.q, outcome)
       IN /\ queues' = Store(g, got, r.q)
          /\ nextObj' = got.nextObj
          /\ fired' = Bump(fired, r.invoked)
          /\ dequeuedCb' = dequeuedCb \cup HeadCb(got.q)
          /\ ret' = Ret("get_next_track", g, got.id, r.track, r.invoked, outcome, r.raised)
    /\ UNCHANGED <<nextCb, clearedCb>>
    /\ UNCHANGED oVars

RPlayNextPrepare(g, outcome) ==
    /\ CanFetch(g)
    /\ LET got == Fetch(g)
           r == PlayNextPrepare(got.q, outcome)
       IN /\ queues' = Store(g, got, r.q)
          /\ nextObj' = got.nextObj
          /\ fired' = Bump(fired, r.invoked)
          /\ dequeuedCb' = dequeuedCb \cup HeadCb(got.q)
          /\ ret' = Ret("play_next", g, got.id, r.next_track, r.invoked, outcome, r.raised)
    /\ UNCHANGED <<nextCb, clearedCb>>
    /\ UNCHANGED oVars

ItemCbs(q) ==
    {q.queue[i].callback_id : i \in 1..Len(q.queue)} \ {None}

RClear(g) ==
    /\ CanFetch(g)
    /\ LET got == Fetch(g)
       IN /\ queues' = Store(g, got, clear(got.q))
          /\ nextObj' = got.nextObj
          /\ clearedCb' = clearedCb \cup ItemCbs(got.q)
          /\ ret' = Ret("clear", g, got.id, None, None, "ok", FALSE)
    /\ UNCHANGED <<nextCb, fired, dequeuedCb>>
    /\ UNCHANGED oVars

\* QSpec: the MusicQueue of one guild, every method
QNext ==
    \/ \E tr \in Tracks, on_start \in BOOLEAN : RAddTrack(QGuild, tr, on_start)
    \/ \E tr \in Tracks, position \in {-1, 0} : RProcessTrack(QGuild, tr, position)
    \/ RStartPlaylist(QGuild)
    \/ \E outcome \in {"ok", "raises"} : RGetNextTrack(QGuild, outcome)
    \/ \E outcome \in {"ok", "raises"} : RPlayNextPrepare(QGuild, outcome)
    \/ RClear(QGuild)

QSpec == Init /\ [][QNext]_vars

\* RSpec: the QueueManager over several guilds
RNext ==
    \/ \E g \in Guilds : RGetQueue(g)
    \/ \E g \in Guilds : RRemoveQueue(g)
    \/ \E g \in Guilds, tr \in Tracks : RProcessTrack(g, tr, -1)
    \/ \E g \in Guilds : RClear(g)

RSpec == Init /\ [][RNext]_vars

(***************************************************************************)
(* Spec: the Music cog for one guild                                       *)
(***************************************************************************)
SetTask(t, tk) == [tasks EXCEPT ![t] = tk]

\* !play / !playnow with a single-track query, up to the await of process_url
\* inside _process_track, which is reached holding self._lock (lines 358-363).
\* _ensure_voice_connection has connected the voice client.
IssueTrackCmd(t, kind) ==
    /\ budget > 0
    /\ FreeSlots # {} /\ t = Min(FreeSlots)
    /\ budget' = budget - 1
    /\ vc' = "connected"
    /\ lock' = Acquire(lock, t)
    /\ tasks' = SetTask(t, NewTask(kind, "pt_resolve"))
    /\ UNCHANGED <<mq, vcPlaying, vcTrack, completions, current_players>>
    /\ UNCHANGED qVars
    /\ UNCHANGED voice_clients
    /\ UNCHANGED lVars

\* process_url returns (ok) or raises; _process_track lines 364-382
PtResolved(t, ok) ==
    /\ tasks[t].pc = "pt_resolve"
    /\ lock.holder = t
    /\ LET tk == tasks[t]
           r == ProcessTrackEnqueue(mq, IF tk.kind = "play" THEN PlayTrack ELSE PlayNowTrack,
                                    IF tk.kind = "play" THEN -1 ELSE 0)
       IN IF ok
          THEN /\ mq' = r.q
               /\ tasks' = SetTask(t, [tk EXCEPT !.pc = "cmd_send",
                                                 !.ssp = r.should_start_playing])
          ELSE /\ mq' = mq
               /\ tasks' = SetTask(t, Free)
    /\ lock' = Release(lock)
    /\ UNCHANGED <<vc, vcPlaying, vcTrack, completions, budget, current_players>>
    /\ UNCHANGED qVars
    /\ UNCHANGED voice_clients
    /\ UNCHANGED lVars

\* play lines 415-420 and playnow lines 456-462, after the confirmation is sent
CmdSent(t) ==
    /\ tasks[t].pc = "cmd_send"
    /\ LET tk == tasks[t]
           r == CallPlayNext(t, tk, mq, lock, vc)
       IN IF tk.kind = "play" /\ ~tk.ssp
          THEN /\ tasks' = SetTask(t, Free)
               /\ UNCHANGED <<mq, lock, vcPlaying, vcTrack, completions, scheduled>>
          ELSE IF tk.kind = "playnow" /\ vc = "connected" /\ vcPlaying
          THEN /\ vcPlaying' = FALSE
               /\ vcTrack' = None
               /\ completions' = Append(completions, FALSE)
               /\ tasks' = SetTask(t, Free)
               /\ UNCHANGED <<mq, lock, scheduled>>
          ELSE /\ mq' = r.mq
               /\ lock' = r.lock
               /\ tasks' = SetTask(t, r.task)
               /\ scheduled' = scheduled + r.spawn
               /\ UNCHANGED <<vcPlaying, vcTrack, completions>>
    /\ UNCHANGED <<vc, budget, current_players>>
    /\ UNCHANGED qVars
    /\ UNCHANGED voice_clients
    /\ UNCHANGED <<received, attempts>>

\* play_next resumes with the lock it waited for
PnGranted(t) ==
    /\ tasks[t].pc = "pn_wait"
    /\ lock.holder = t
    /\ LET r == PlayNextLocked(t, tasks[t], mq, lock, vc)
       IN /\ mq' = r.mq
          /\ lock' = r.lock
          /\ tasks' = SetTask(t, r.task)
          /\ scheduled' = scheduled + r.spawn
    /\ UNCHANGED <<vc, vcPlaying, vcTrack, completions, budget, current_players>>
    /\ UNCHANGED qVars
    /\ UNCHANGED voice_clients
    /\ UNCHANGED <<received, attempts>>

\* play_next whose call of leave takes self._lock again
PnReconnectFailedRelocks(t) ==
    /\ tasks[t].pc = "pn_reconnect"
    /\ lock.holder = t
    /\ lock' = Acquire(lock, t)
    /\ tasks' = SetTask(t, [tasks[t] EXCEPT !.pc = "pn_wait"])
    /\ UNCHANGED <<mq, vc, vcPlaying, vcTrack, completions, budget, current_players>>
    /\ UNCHANGED qVars
    /\ UNCHANGED voice_clients
    /\ UNCHANGED lVars

\* play_next lines 135-138: auto_reconnect was handed ctx.voice_client = None,
\* so each of its attempts raises and it returns False; leave() (lines 657-665)
\* then clears the queue and disconnects whatever voice client exists by now.
PnReconnectFailed(t) ==
    /\ tasks[t].pc = "pn_reconnect"
    /\ lock.holder = t
    /\ mq' = clear(mq)
    /\ vc' = "none"
    /\ vcPlaying' = FALSE
    /\ vcTrack' = None
    /\ completions' = IF vcPlaying THEN Append(completions, FALSE) ELSE completions
    /\ lock' = Release(lock)
    /\ tasks' = [MarkStale(tasks) EXCEPT ![t] = Return(tasks[t])]
    /\ UNCHANGED <<budget, current_players>>
    /\ UNCHANGED qVars
    /\ UNCHANGED voice_clients
    /\ UNCHANGED lVars

\* play_next lines 155-183: YTDLSource.from_track returns (ok) or raises;
\* voice_client.play raises when there is no voice client or it is playing.
\* The "Now playing" message of line 176 is taken to be delivered.
PnConstructed(t, ok) ==
    /\ tasks[t].pc = "pn_construct"
    /\ IF ok /\ vc = "connected" /\ ~vcPlaying
       THEN /\ vcPlaying' = TRUE
            /\ vcTrack' = tasks[t].nt
            /\ tasks' = SetTask(t, Return(tasks[t]))
       ELSE /\ tasks' = SetTask(t, [tasks[t] EXCEPT !.pc = "pn_retry", !.nt = None])
            /\ UNCHANGED <<vcPlaying, vcTrack>>
    /\ UNCHANGED <<mq, lock, vc, completions, budget, current_players>>
    /\ UNCHANGED qVars
    /\ UNCHANGED voice_clients
    /\ UNCHANGED lVars

\* play_next lines 181-183: the error is reported, a second passes, play_next again
PnRetry(t) ==
    /\ tasks[t].pc = "pn_retry"
    /\ LET r == CallPlayNext(t, tasks[t], mq, lock, vc)
       IN /\ mq' = r.mq
          /\ lock' = r.lock
          /\ tasks' = SetTask(t, r.task)
          /\ scheduled' = scheduled + r.spawn
    /\ UNCHANGED <<vc, vcPlaying, vcTrack, completions, budget, current_players>>
    /\ UNCHANGED qVars
    /\ UNCHANGED voice_clients
    /\ UNCHANGED <<received, attempts>>

\* after_playing resetting is_playing itself, in the player thread
TrackEndsTouchesQueue(err) ==
    /\ vcPlaying
    /\ vcPlaying' = FALSE
    /\ vcTrack' = None
    /\ completions' = Append(completions, err)
    /\ mq' = [mq EXCEPT !.is_playing = FALSE]
    /\ UNCHANGED <<lock, vc, tasks, budget, current_players>>
    /\ UNCHANGED qVars
    /\ UNCHANGED voice_clients
    /\ UNCHANGED lVars

\* the player thread ends the track (err: with an error) and calls after_playing,
\* which hands _handle_playback_complete to the loop (lines 162-169)
TrackEnds(err) ==
    /\ vcPlaying
    /\ vcPlaying' = FALSE
    /\ vcTrack' = None
    /\ completions' = Append(completions, err)
    /\ UNCHANGED <<mq, lock, vc, tasks, budget, current_players>>
    /\ UNCHANGED qVars
    /\ UNCHANGED voice_clients
    /\ UNCHANGED lVars

\* the loop starts _handle_playback_complete (lines 91-96)
HandlerStart(t) ==
    /\ completions # <<>>
    /\ FreeSlots # {} /\ t = Min(FreeSlots)
    /\ completions' = Tail(completions)
    /\ LET tk == [NewTask("handler", "h_wait") EXCEPT !.err = Head(completions)]
           r == IF lock.holder = 0
                THEN HandlerLocked(t, tk, mq, [lock EXCEPT !.holder = t], vc)
                ELSE [mq |-> mq, lock |-> Acquire(lock, t), task |-> tk, spawn |-> 0]
       IN /\ mq' = r.mq
          /\ lock' = r.lock
          /\ tasks' = SetTask(t, r.task)
          /\ scheduled' = scheduled + r.spawn
    /\ UNCHANGED <<vc, vcPlaying, vcTrack, budget, current_players>>
    /\ UNCHANGED qVars
    /\ UNCHANGED voice_clients
    /\ UNCHANGED <<received, attempts>>

HandlerGranted(t) ==
    /\ tasks[t].pc = "h_wait"
    /\ lock.holder = t
    /\ LET r == HandlerLocked(t, tasks[t], mq, lock, vc)
       IN /\ mq' = r.mq
          /\ lock' = r.lock
          /\ tasks' = SetTask(t, r.task)
          /\ scheduled' = scheduled + r.spawn
    /\ UNCHANGED <<vc, vcPlaying, vcTrack, completions, budget, current_players>>
    /\ UNCHANGED qVars
    /\ UNCHANGED voice_clients
    /\ UNCHANGED <<received, attempts>>

\* lines 98-100 and 114-116: ctx.send returns (sent) or raises under the lock
HNotified(t, sent) ==
    /\ tasks[t].pc = "h_notify"
    /\ lock.holder = t
    /\ LET r == IF sent
                THEN HandlerDecide(t, tasks[t], mq, lock, vc)
                ELSE [mq |-> mq, lock |-> Release(lock), task |-> Free, spawn |-> 0]
       IN /\ mq' = r.mq
          /\ lock' = r.lock
          /\ tasks' = SetTask(t, r.task)
          /\ scheduled' = scheduled + r.spawn
    /\ UNCHANGED <<vc, vcPlaying, vcTrack, completions, budget, current_players>>
    /\ UNCHANGED qVars
    /\ UNCHANGED voice_clients
    /\ UNCHANGED <<received, attempts>>

\* stop lines 593-606 run by t holding the lock, up to the await of ctx.send.
\* cleanup_player (line 599) takes the playback lock of the guild after the
\* async with block has released self._lock, and releases it without an
\* await; held_both records whether t still held self._lock at that point.
StopLocked(t, tk) ==
    /\ mq' = clear(mq)
    /\ lock' = Release(lock)
    /\ current_players' = current_players \ {GuildId}
    /\ IF StopShouldDisconnect(vc, vcPlaying)
       THEN /\ vcPlaying' = FALSE
            /\ vcTrack' = None
            /\ completions' = Append(completions, FALSE)
            /\ vc' = "none"
       ELSE UNCHANGED <<vc, vcPlaying, vcTrack, completions>>
    /\ tasks' = [MarkStale(tasks) EXCEPT ![t] =
                    [tk EXCEPT !.pc = "stop_send",
                               !.rep = IF StopShouldDisconnect(vc, vcPlaying)
                                       THEN "stopped" ELSE "nothing",
                               !.was = TenantState(mq, vcPlaying),
                               !.held_both = (Release(lock).holder = t)]]

IssueStop(t) ==
    /\ budget > 0
    /\ FreeSlots # {} /\ t = Min(FreeSlots)
    /\ budget' = budget - 1
    /\ IF lock.holder = 0
       THEN StopLocked(t, NewTask("stop", "stop_wait"))
       ELSE /\ lock' = Acquire(lock, t)
            /\ tasks' = SetTask(t, NewTask("stop", "stop_wait"))
            /\ UNCHANGED <<mq, vc, vcPlaying, vcTrack, completions, current_players>>
    /\ UNCHANGED qVars
    /\ UNCHANGED voice_clients
    /\ UNCHANGED lVars

StopGranted(t) ==
    /\ tasks[t].pc = "stop_wait"
    /\ lock.holder = t
    /\ StopLocked(t, tasks[t])
    /\ UNCHANGED budget
    /\ UNCHANGED qVars
    /\ UNCHANGED voice_clients
    /\ UNCHANGED lVars

StopDone(t) ==
    /\ tasks[t].pc = "stop_send"
    /\ tasks' = SetTask(t, Free)
    /\ UNCHANGED <<mq, lock, vc, vcPlaying, vcTrack, completions, budget, current_players>>
    /\ UNCHANGED qVars
    /\ UNCHANGED voice_clients
    /\ UNCHANGED lVars

\* !leave, lines 657-665: no lock is taken
Leave ==
    /\ budget > 0
    /\ budget' = budget - 1
    /\ mq' = clear(mq)
    /\ vc' = "none"
    /\ vcPlaying' = FALSE
    /\ vcTrack' = None
    /\ completions' = IF vcPlaying THEN Append(completions, FALSE) ELSE completions
    /\ tasks' = MarkStale(tasks)
    /\ UNCHANGED <<lock, current_players>>
    /\ UNCHANGED qVars
    /\ UNCHANGED voice_clients
    /\ UNCHANGED lVars

\* the amounts a user types after !skip, and int(amount) of line 611
SkipAmounts == {"x", "0", "1", "2"}

IsInt(amount) == amount \in {"0", "1", "2"}

ToInt(amount) == CASE amount = "0" -> 0 [] amount = "1" -> 1 [] amount = "2" -> 2

\* !skip without the is_playing test of line 623
SkipReplyUnchecked(amount, q) ==
    IF ~IsInt(amount) THEN "invalid_number"
    ELSE IF ToInt(amount) < 1 THEN "not_positive"
    ELSE "error"

\* !skip, lines 609-637: what the command answers.  A bad amount or is_playing
\* False is reported; otherwise line 628 calls MusicQueue.skip_tracks, which
\* the class does not define: the AttributeError ends the command before the
\* voice client is stopped and error_handler (lines 836-849) reports it.
SkipReply(amount, q) ==
    IF ~IsInt(amount) THEN "invalid_number"
    ELSE IF ToInt(amount) < 1 THEN "not_positive"
    ELSE IF ~q.is_playing THEN "nothing"
    ELSE "error"

\* !skip up to the await of the message it sends; no lock is taken
Skip(t, amount) ==
    /\ budget > 0
    /\ FreeSlots # {} /\ t = Min(FreeSlots)
    /\ budget' = budget - 1
    /\ tasks' = SetTask(t, [NewTask("skip", "skip_send") EXCEPT
                               !.rep = SkipReply(amount, mq), !.amount = amount])
    /\ UNCHANGED <<mq, lock, vc, vcPlaying, vcTrack, completions, current_players>>
    /\ UNCHANGED qVars
    /\ UNCHANGED voice_clients
    /\ UNCHANGED lVars

SkipDone(t) ==
    /\ tasks[t].pc = "skip_send"
    /\ tasks' = SetTask(t, Free)
    /\ UNCHANGED <<mq, lock, vc, vcPlaying, vcTrack, completions, budget, current_players>>
    /\ UNCHANGED qVars
    /\ UNCHANGED voice_clients
    /\ UNCHANGED lVars

\* process_playlist lines 218-236 for task tk on queue q: the batch range, then
\* the await of the gathered extract_video_info calls
StartBatch(tk, q) ==
    IF q.playlist_loader.current_index >= BatchEnd(q)
    THEN [mq |-> finish_playlist_loading(q), task |-> Free]
    ELSE [mq |-> q,
          task |-> [tk EXCEPT !.pc = "pp_gather",
                              !.start_idx = q.playlist_loader.current_index,
                              !.end_idx = BatchEnd(q)]]

\* !play with a playlist URL: process_playlist lines 193-200 (or 218-236 when a
\* loader exists already)
IssuePlaylist(t) ==
    /\ budget > 0
    /\ FreeSlots # {} /\ t = Min(FreeSlots)
    /\ budget' = budget - 1
    /\ vc' = "connected"
    /\ LET r == IF ~mq.playlist_loader.present
                THEN [mq |-> mq, task |-> NewTask("playlist", "pp_info")]
                ELSE StartBatch(NewTask("playlist", "pp_info"), mq)
       IN /\ mq' = r.mq
          /\ tasks' = SetTask(t, r.task)
    /\ UNCHANGED <<lock, vcPlaying, vcTrack, completions, current_players>>
    /\ UNCHANGED qVars
    /\ UNCHANGED voice_clients
    /\ UNCHANGED lVars

\* process_playlist creating the loader whatever get_playlist_info returned
PpInfoAlwaysLoads(t, n) ==
    /\ tasks[t].pc = "pp_info"
    /\ LET q1 == [start_playlist_loading(mq, PlaylistUrl) EXCEPT
                     !.playlist_loader.video_entries = [k \in 1..n |-> k],
                     !.playlist_loader.total_tracks = n]
           r == StartBatch(tasks[t], q1)
       IN /\ mq' = r.mq
          /\ tasks' = SetTask(t, r.task)
          /\ received' = <<>>
    /\ UNCHANGED <<lock, vc, vcPlaying, vcTrack, completions, budget, current_players>>
    /\ UNCHANGED qVars
    /\ UNCHANGED voice_clients
    /\ UNCHANGED <<scheduled, attempts>>

\* get_playlist_info returns n entries (0: none, or it raised), lines 200-213;
\* without entries the command sends its failure message and returns
PpInfo(t, n) ==
    /\ tasks[t].pc = "pp_info"
    /\ LET q1 == [start_playlist_loading(mq, PlaylistUrl) EXCEPT
                     !.playlist_loader.video_entries = [k \in 1..n |-> k],
                     !.playlist_loader.total_tracks = n]
           r == IF n = 0
                THEN [mq |-> mq,
                      task |-> [tasks[t] EXCEPT !.pc = "pp_fail_send",
                                                !.rep = "playlist_failed"]]
                ELSE StartBatch(tasks[t], q1)
       IN /\ mq' = r.mq
          /\ tasks' = SetTask(t, r.task)
          /\ received' = IF n = 0 THEN received ELSE <<>>
    /\ UNCHANGED <<lock, vc, vcPlaying, vcTrack, completions, budget, current_players>>
    /\ UNCHANGED qVars
    /\ UNCHANGED voice_clients
    /\ UNCHANGED <<scheduled, attempts>>

\* the failure message of line 202 or 211 is sent
PpFailSent(t) ==
    /\ tasks[t].pc = "pp_fail_send"
    /\ tasks' = SetTask(t, Free)
    /\ UNCHANGED <<mq, lock, vc, vcPlaying, vcTrack, completions, budget, current_players>>
    /\ UNCHANGED qVars
    /\ UNCHANGED voice_clients
    /\ UNCHANGED lVars

\* the tracks q1 holds behind those of q0: what was appended in between
Added(q0, q1) ==
    [k \in 1..(Len(q1.queue) - Len(q0.queue)) |-> q1.queue[Len(q0.queue) + k].track]

\* process_playlist returns: when load_next_batch called it, its finally clause
\* (lines 311-312) runs; without a loader that assignment raises and changes nothing
EndProcess(tk, q) ==
    IF tk.kind = "lnb" /\ q.playlist_loader.present
    THEN [q EXCEPT !.playlist_loader.is_loading = FALSE]
    ELSE q

\* the gathered results arrive; lines 239-299, or up to the await of play_next
\* (line 263) when the first entry of the first batch starts playback
PpGathered(t, res) ==
    /\ tasks[t].pc = "pp_gather"
    /\ LET tk == tasks[t]
           first == res[1] /\ tk.start_idx = 0 /\ ~mq.is_playing
           q1 == [add_track(mq, PlaylistTrack(1), FALSE, None) EXCEPT !.is_playing = TRUE]
           r == CallPlayNext(t, [tk EXCEPT !.res = res, !.i = 2, !.added = 1], q1, lock, vc)
           b == AddBatch(mq, res, 1, 0, tk.start_idx, nextCb)
       IN IF first
          THEN /\ mq' = r.mq
               /\ lock' = r.lock
               /\ tasks' = SetTask(t, r.task)
               /\ nextCb' = nextCb
               /\ scheduled' = scheduled + r.spawn
               /\ received' = received \o Added(mq, q1)
          ELSE /\ mq' = EndProcess(tk, FinishBatch(b.q, tk.end_idx))
               /\ lock' = lock
               /\ tasks' = SetTask(t, Free)
               /\ nextCb' = b.uuid
               /\ scheduled' = scheduled
               /\ received' = received \o Added(mq, b.q)
    /\ UNCHANGED <<vc, vcPlaying, vcTrack, completions, budget, current_players>>
    /\ UNCHANGED <<queues, nextObj, fired, ret, dequeuedCb, clearedCb>>
    /\ UNCHANGED voice_clients

\* every entry of the batch resolves or fails on its own
PpGatheredAny(t) ==
    /\ \E res \in [1..(tasks[t].end_idx - tasks[t].start_idx) -> BOOLEAN] : PpGathered(t, res)
    /\ UNCHANGED attempts

\* play_next has returned to process_playlist: lines 264-299
PpRest(t) ==
    /\ tasks[t].pc = "pp_rest"
    /\ LET tk == tasks[t]
           b == AddBatch(mq, tk.res, tk.i, tk.added, tk.start_idx, nextCb)
       IN /\ mq' = EndProcess(tk, FinishBatch(b.q, tk.end_idx))
          /\ nextCb' = b.uuid
          /\ received' = received \o Added(mq, b.q)
    /\ tasks' = SetTask(t, Free)
    /\ UNCHANGED <<lock, vc, vcPlaying, vcTrack, completions, budget, current_players>>
    /\ UNCHANGED <<queues, nextObj, fired, ret, dequeuedCb, clearedCb>>
    /\ UNCHANGED voice_clients
    /\ UNCHANGED <<scheduled, attempts>>

TaskIds == 1..MaxTasks

Next ==
    \/ \E t \in TaskIds, kind \in {"play", "playnow"} : IssueTrackCmd(t, kind)
    \/ \E t \in TaskIds, ok \in BOOLEAN : PtResolved(t, ok)
    \/ \E t \in TaskIds : CmdSent(t)
    \/ \E t \in TaskIds : PnGranted(t)
    \/ \E t \in TaskIds : PnReconnectFailed(t)
    \/ \E t \in TaskIds, ok \in BOOLEAN : PnConstructed(t, ok)
    \/ \E t \in TaskIds : PnRetry(t)
    \/ \E err \in BOOLEAN : TrackEnds(err)
    \/ \E t \in TaskIds : HandlerStart(t)
    \/ \E t \in TaskIds : HandlerGranted(t)
    \/ \E t \in TaskIds, sent \in BOOLEAN : HNotified(t, sent)
    \/ \E t \in TaskIds : IssueStop(t)
    \/ \E t \in TaskIds : StopGranted(t)
    \/ \E t \in TaskIds : StopDone(t)
    \/ Leave
    \/ \E t \in TaskIds, amount \in SkipAmounts : Skip(t, amount)
    \/ \E t \in TaskIds : SkipDone(t)
    \/ \E t \in TaskIds : IssuePlaylist(t)
    \/ \E t \in TaskIds, n \in 0..MaxEntries : PpInfo(t, n)
    \/ \E t \in TaskIds : PpFailSent(t)
    \/ \E t \in TaskIds : PpGatheredAny(t)
    \/ \E t \in TaskIds : PpRest(t)

Spec == Init /\ [][Next]_vars

\* every coroutine that can run does run
FairSpec == Init /\ [][Next]_vars /\ WF_vars(Next)

(***************************************************************************)
(* LSpec: one playlist command on a fresh guild.  The tracks play and end, *)
(* a player may fail to be built, and the callback of the ninth track      *)
(* added by a batch starts load_next_batch.                                *)
(***************************************************************************)
MaxPlaylist == 25    \* entries of the longest playlist in LSpec

PlaylistSizes == {0, 1, BatchSize, BatchSize + 2, MaxPlaylist}

max_tries == 2

\* what one attempt of extract_video_info can do: _get_video_info returns the
\* info, returns nothing, raises, or runs into the timeout of wait_for
AttemptSeqs ==
    {<<"info">>, <<"none">>, <<"error", "info">>, <<"error", "error", "info">>,
     <<"timeout", "timeout", "info">>}

\* extract_video_info not counting the attempts that time out
RECURSIVE extract_video_info_patient(_, _, _, _)
extract_video_info_patient(outcomes, k, tries, made) ==
    IF tries >= max_tries \/ k > Len(outcomes) THEN [info |-> FALSE, attempts |-> made]
    ELSE IF outcomes[k] = "info" THEN [info |-> TRUE, attempts |-> made + 1]
    ELSE IF outcomes[k] = "none" THEN [info |-> FALSE, attempts |-> made + 1]
    ELSE IF outcomes[k] = "timeout"
         THEN extract_video_info_patient(outcomes, k + 1, tries, made + 1)
    ELSE extract_video_info_patient(outcomes, k + 1, tries + 1, made + 1)

\* YouTubeService.extract_video_info, the loop of lines 177-204 from attempt k
\* on with tries failures so far and made attempts made: whether it returns
\* the info (else None), and how many attempts it made in all (no attempt is
\* made beyond the outcomes given)
RECURSIVE extract_video_info_run(_, _, _, _)
extract_video_info_run(outcomes, k, tries, made) ==
    IF tries >= max_tries \/ k > Len(outcomes) THEN [info |-> FALSE, attempts |-> made]
    ELSE IF outcomes[k] = "info" THEN [info |-> TRUE, attempts |-> made + 1]
    ELSE IF outcomes[k] = "none" THEN [info |-> FALSE, attempts |-> made + 1]
    ELSE extract_video_info_run(outcomes, k + 1, tries + 1, made + 1)

\* YouTubeService.extract_video_info, lines 173-204: TRUE when it returns the
\* info, FALSE when it returns None
extract_video_info(outcomes, k, tries) ==
    extract_video_info_run(outcomes, k, tries, 0).info

\* the batches of attempt outcomes LSpec tries: the same for every entry, or
\* one entry (the first, the second or the last) departing from a clean batch,
\* or the first entry alone resolving
AttemptBatches(len) ==
    {[i \in 1..len |-> s] : s \in AttemptSeqs} \cup
    {[i \in 1..len |-> IF i = k THEN s ELSE <<"info">>] :
        k \in {1, 2, len} \cap (1..len), s \in AttemptSeqs} \cup
    {[i \in 1..len |-> IF i = 1 THEN <<"info">> ELSE <<"none">>]}

\* the one playlist command
LIssuePlaylist(t) == budget = MaxCmds /\ IssuePlaylist(t)

LInfo(t) == \E n \in PlaylistSizes : PpInfo(t, n)

\* asyncio.gather returns the results of extract_video_info in entry order
LGathered(t) ==
    \E att \in AttemptBatches(tasks[t].end_idx - tasks[t].start_idx) :
        /\ PpGathered(t, [i \in DOMAIN att |-> extract_video_info(att[i], 1, 0)])
        /\ attempts' = attempts \o att

\* load_next_batch, lines 301-312, up to the gather of process_playlist
LoadNextBatch(t) ==
    /\ scheduled > 0
    /\ FreeSlots # {} /\ t = Min(FreeSlots)
    /\ scheduled' = scheduled - 1
    /\ IF ~is_playlist_complete(mq) /\ ~mq.playlist_loader.is_loading
       THEN LET tk == NewTask("lnb", "pp_info")
                r == StartBatch(tk, [mq EXCEPT !.playlist_loader.is_loading = TRUE])
            IN /\ mq' = IF r.task.pc = "free" THEN EndProcess(tk, r.mq) ELSE r.mq
               /\ tasks' = SetTask(t, r.task)
       ELSE UNCHANGED <<mq, tasks>>
    /\ UNCHANGED <<lock, vc, vcPlaying, vcTrack, completions, budget, current_players>>
    /\ UNCHANGED qVars
    /\ UNCHANGED voice_clients
    /\ UNCHANGED <<received, attempts>>

\* the track being played ends without an error
LTrackEnds == TrackEnds(FALSE)

LNext ==
    \/ \E t \in TaskIds : LIssuePlaylist(t)
    \/ \E t \in TaskIds : LInfo(t)
    \/ \E t \in TaskIds : PpFailSent(t)
    \/ \E t \in TaskIds : LGathered(t)
    \/ \E t \in TaskIds : PpRest(t)
    \/ \E t \in TaskIds, ok \in BOOLEAN : PnConstructed(t, ok)
    \/ \E t \in TaskIds : PnRetry(t)
    \/ LTrackEnds
    \/ \E t \in TaskIds : HandlerStart(t)
    \/ \E t \in TaskIds : LoadNextBatch(t)

LSpec == Init /\ [][LNext]_vars

\* every coroutine that can run does run
LFairSpec == Init /\ [][LNext]_vars /\ WF_vars(LNext)

(***************************************************************************)
(* GSpec: the cog serving two guilds.  Every handler finds its MusicQueue  *)
(* with queue_manager.get_queue(ctx.guild.id) and its voice client in      *)
(* ctx.voice_client; Music._lock is the one lock of the cog (line 30).     *)
(* The playlists have at most MaxEntries entries, so no batch attaches a   *)
(* callback.                                                               *)
(***************************************************************************)
GMaxCmds == 2    \* commands the users of the two guilds issue in GSpec

\* the users may issue another command
GMayIssue == budget > MaxCmds - GMaxCmds

\* the MusicQueue get_queue hands to a handler of guild g
GQ(g) == Fetch(g).q

\* the handler leaves q2 in the MusicQueue get_queue gave it
Put(g, q2) ==
    /\ queues' = Store(g, Fetch(g), q2)
    /\ nextObj' = Fetch(g).nextObj

SetVoice(g, v) == voice_clients' = [voice_clients EXCEPT ![g] = v]

\* voice_client.stop() or disconnect(): a playing track ends, its
\* after-callback is handed to the loop
Stopped(v) ==
    [v EXCEPT !.playing = FALSE, !.track = None,
              !.completions = IF v.playing THEN Append(@, FALSE) ELSE @]

GTask(kind, pc, g) == [NewTask(kind, pc) EXCEPT !.guild = g]

\* what GSpec does not use
GFrame ==
    /\ UNCHANGED <<mq, vc, vcPlaying, vcTrack, completions, current_players>>
    /\ UNCHANGED <<nextCb, fired, ret, dequeuedCb, clearedCb>>
    /\ UNCHANGED lVars

\* !play / !playnow in guild g, as IssueTrackCmd
GIssueTrackCmd(t, g, kind) ==
    /\ GMayIssue
    /\ FreeSlots # {} /\ t = Min(FreeSlots)
    /\ budget' = budget - 1
    /\ SetVoice(g, [voice_clients[g] EXCEPT !.vc = "connected"])
    /\ lock' = Acquire(lock, t)
    /\ tasks' = SetTask(t, GTask(kind, "pt_resolve", g))
    /\ UNCHANGED <<queues, nextObj>>
    /\ GFrame

\* _process_track lines 358-382 once it holds the lock: get_queue (line 360),
\* then process_url returns (ok) or raises
GPtResolved(t, ok) ==
    /\ tasks[t].pc = "pt_resolve"
    /\ lock.holder = t
    /\ LET tk == tasks[t]
           r == ProcessTrackEnqueue(GQ(tk.guild),
                                    IF tk.kind = "play" THEN PlayTrack ELSE PlayNowTrack,
                                    IF tk.kind = "play" THEN -1 ELSE 0)
       IN IF ok
          THEN /\ Put(tk.guild, r.q)
               /\ tasks' = SetTask(t, [tk EXCEPT !.pc = "cmd_send",
                                                 !.ssp = r.should_start_playing])
          ELSE /\ Put(tk.guild, GQ(tk.guild))
               /\ tasks' = SetTask(t, Free)
    /\ lock' = Release(lock)
    /\ UNCHANGED <<voice_clients, budget>>
    /\ GFrame

\* play lines 415-420 and playnow lines 456-462
GCmdSent(t) ==
    /\ tasks[t].pc = "cmd_send"
    /\ LET tk == tasks[t]
           g == tk.guild
           v == voice_clients[g]
           r == CallPlayNext(t, tk, GQ(g), lock, v.vc)
       IN IF tk.kind = "play" /\ ~tk.ssp
          THEN /\ tasks' = SetTask(t, Free)
               /\ UNCHANGED <<queues, nextObj, lock, voice_clients>>
          ELSE IF tk.kind = "playnow" /\ v.vc = "connected" /\ v.playing
          THEN /\ SetVoice(g, Stopped(v))
               /\ tasks' = SetTask(t, Free)
               /\ UNCHANGED <<queues, nextObj, lock>>
          ELSE /\ Put(g, r.mq)
               /\ lock' = r.lock
               /\ tasks' = SetTask(t, r.task)
               /\ UNCHANGED voice_clients
    /\ UNCHANGED budget
    /\ GFrame

\* play_next resumes with the lock it waited for
GPnGranted(t) ==
    /\ tasks[t].pc = "pn_wait"
    /\ lock.holder = t
    /\ LET g == tasks[t].guild
           r == PlayNextLocked(t, tasks[t], GQ(g), lock, voice_clients[g].vc)
       IN /\ Put(g, r.mq)
          /\ lock' = r.lock
          /\ tasks' = SetTask(t, r.task)
    /\ UNCHANGED <<voice_clients, budget>>
    /\ GFrame

\* play_next lines 135-138, as PnReconnectFailed
GPnReconnectFailed(t) ==
    /\ tasks[t].pc = "pn_reconnect"
    /\ lock.holder = t
    /\ LET g == tasks[t].guild
       IN /\ Put(g, clear(GQ(g)))
          /\ SetVoice(g, [Stopped(voice_clients[g]) EXCEPT !.vc = "none"])
    /\ lock' = Release(lock)
    /\ tasks' = SetTask(t, Return(tasks[t]))
    /\ UNCHANGED budget
    /\ GFrame

\* play_next lines 155-183, as PnConstructed
GPnConstructed(t, ok) ==
    /\ tasks[t].pc = "pn_construct"
    /\ LET g == tasks[t].guild
           v == voice_clients[g]
       IN IF ok /\ v.vc = "connected" /\ ~v.playing
          THEN /\ SetVoice(g, [v EXCEPT !.playing = TRUE, !.track = tasks[t].nt])
               /\ tasks' = SetTask(t, Return(tasks[t]))
          ELSE /\ tasks' = SetTask(t, [tasks[t] EXCEPT !.pc = "pn_retry", !.nt = None])
               /\ UNCHANGED voice_clients
    /\ UNCHANGED <<queues, nextObj, lock, budget>>
    /\ GFrame

\* play_next lines 181-183, as PnRetry
GPnRetry(t) ==
    /\ tasks[t].pc = "pn_retry"
    /\ LET g == tasks[t].guild
           r == CallPlayNext(t, tasks[t], GQ(g), lock, voice_clients[g].vc)
       IN /\ Put(g, r.mq)
          /\ lock' = r.lock
          /\ tasks' = SetTask(t, r.task)
    /\ UNCHANGED <<voice_clients, budget>>
    /\ GFrame

\* the player thread of guild g ends the track, as TrackEnds
GTrackEnds(g, err) ==
    /\ voice_clients[g].playing
    /\ SetVoice(g, [voice_clients[g] EXCEPT !.playing = FALSE, !.track = None,
                                            !.completions = Append(@, err)])
    /\ UNCHANGED <<queues, nextObj, lock, tasks, budget>>
    /\ GFrame

\* the loop starts _handle_playback_complete of guild g (lines 91-96)
GHandlerStart(t, g) ==
    /\ voice_clients[g].completions # <<>>
    /\ FreeSlots # {} /\ t = Min(FreeSlots)
    /\ SetVoice(g, [voice_clients[g] EXCEPT !.completions = Tail(@)])
    /\ LET tk == [GTask("handler", "h_wait", g) EXCEPT
                     !.err = Head(voice_clients[g].completions)]
       IN IF lock.holder = 0
          THEN LET r == HandlerLocked(t, tk, GQ(g), [lock EXCEPT !.holder = t],
                                      voice_clients[g].vc)
               IN /\ Put(g, r.mq)
                  /\ lock' = r.lock
                  /\ tasks' = SetTask(t, r.task)
          ELSE /\ lock' = Acquire(lock, t)
               /\ tasks' = SetTask(t, tk)
               /\ UNCHANGED <<queues, nextObj>>
    /\ UNCHANGED budget
    /\ GFrame

GHandlerGranted(t) ==
    /\ tasks[t].pc = "h_wait"
    /\ lock.holder = t
    /\ LET g == tasks[t].guild
           r == HandlerLocked(t, tasks[t], GQ(g), lock, voice_clients[g].vc)
       IN /\ Put(g, r.mq)
          /\ lock' = r.lock
          /\ tasks' = SetTask(t, r.task)
    /\ UNCHANGED <<voice_clients, budget>>
    /\ GFrame

\* lines 98-100 and 114-116, as HNotified
GHNotified(t, sent) ==
    /\ tasks[t].pc = "h_notify"
    /\ lock.holder = t
    /\ LET g == tasks[t].guild
           r == IF sent
                THEN HandlerDecide(t, tasks[t], GQ(g), lock, voice_clients[g].vc)
                ELSE [mq |-> GQ(g), lock |-> Release(lock), task |-> Free, spawn |-> 0]
       IN /\ Put(g, r.mq)
          /\ lock' = r.lock
          /\ tasks' = SetTask(t, r.task)
    /\ UNCHANGED <<voice_clients, budget>>
    /\ GFrame

\* stop lines 593-606 run by t holding the lock, as StopLocked
GStopLocked(t, tk) ==
    LET g == tk.guild
        v == voice_clients[g]
        disconnect == StopShouldDisconnect(v.vc, v.playing)
    IN /\ Put(g, clear(GQ(g)))
       /\ lock' = Release(lock)
       /\ SetVoice(g, IF disconnect THEN [Stopped(v) EXCEPT !.vc = "none"] ELSE v)
       /\ tasks' = SetTask(t, [tk EXCEPT !.pc = "stop_send",
                                         !.rep = IF disconnect THEN "stopped" ELSE "nothing"])

GIssueStop(t, g) ==
    /\ GMayIssue
    /\ FreeSlots # {} /\ t = Min(FreeSlots)
    /\ budget' = budget - 1
    /\ IF lock.holder = 0
       THEN GStopLocked(t, GTask("stop", "stop_wait", g))
       ELSE /\ lock' = Acquire(lock, t)
            /\ tasks' = SetTask(t, GTask("stop", "stop_wait", g))
            /\ UNCHANGED <<queues, nextObj, voice_clients>>
    /\ GFrame

GStopGranted(t) ==
    /\ tasks[t].pc = "stop_wait"
    /\ lock.holder = t
    /\ GStopLocked(t, tasks[t])
    /\ UNCHANGED budget
    /\ GFrame

\* a command sends its last message and returns
GCmdDone(t) ==
    /\ tasks[t].pc \in {"stop_send", "leave_send", "skip_send"}
    /\ tasks' = SetTask(t, Free)
    /\ UNCHANGED <<queues, nextObj, lock, voice_clients, budget>>
    /\ GFrame

\* !leave in guild g, lines 657-665, up to the await of disconnect or send
GLeave(t, g) ==
    /\ GMayIssue
    /\ FreeSlots # {} /\ t = Min(FreeSlots)
    /\ budget' = budget - 1
    /\ Put(g, clear(GQ(g)))
    /\ SetVoice(g, [Stopped(voice_clients[g]) EXCEPT !.vc = "none"])
    /\ tasks' = SetTask(t, GTask("leave", "leave_send", g))
    /\ UNCHANGED lock
    /\ GFrame

\* !skip in guild g, lines 609-637, as Skip; get_queue is reached at line 621
GSkip(t, g, amount) ==
    /\ GMayIssue
    /\ FreeSlots # {} /\ t = Min(FreeSlots)
    /\ budget' = budget - 1
    /\ IF IsInt(amount) /\ SkipReply(amount, GQ(g)) # "not_positive"
       THEN Put(g, GQ(g))
       ELSE UNCHANGED <<queues, nextObj>>
    /\ tasks' = SetTask(t, [GTask("skip", "skip_send", g) EXCEPT
                               !.rep = SkipReply(amount, GQ(g)), !.amount = amount])
    /\ UNCHANGED <<lock, voice_clients>>
    /\ GFrame

\* !play with a playlist URL in guild g, as IssuePlaylist
GIssuePlaylist(t, g) ==
    /\ GMayIssue
    /\ FreeSlots # {} /\ t = Min(FreeSlots)
    /\ budget' = budget - 1
    /\ SetVoice(g, [voice_clients[g] EXCEPT !.vc = "connected"])
    /\ LET tk == GTask("playlist", "pp_info", g)
           r == IF ~GQ(g).playlist_loader.present
                THEN [mq |-> GQ(g), task |-> tk]
                ELSE StartBatch(tk, GQ(g))
       IN /\ Put(g, r.mq)
          /\ tasks' = SetTask(t, [r.task EXCEPT !.guild = IF r.task.pc = "free" THEN GuildId ELSE g])
    /\ UNCHANGED lock
    /\ GFrame

\* get_playlist_info returns n entries, as PpInfo
GPpInfo(t, n) ==
    /\ tasks[t].pc = "pp_info"
    /\ LET g == tasks[t].guild
           q1 == [start_playlist_loading(GQ(g), PlaylistUrl) EXCEPT
                     !.playlist_loader.video_entries = [k \in 1..n |-> k],
                     !.playlist_loader.total_tracks = n]
           r == StartBatch(tasks[t], q1)
       IN /\ Put(g, r.mq)
          /\ tasks' = SetTask(t, r.task)
    /\ UNCHANGED <<lock, voice_clients, budget>>
    /\ GFrame

\* the gathered results arrive, as PpGathered
GPpGathered(t, res) ==
    /\ tasks[t].pc = "pp_gather"
    /\ LET tk == tasks[t]
           g == tk.guild
           q == GQ(g)
           first == res[1] /\ tk.start_idx = 0 /\ ~q.is_playing
           q1 == [add_track(q, PlaylistTrack(1), FALSE, None) EXCEPT !.is_playing = TRUE]
           r == CallPlayNext(t, [tk EXCEPT !.res = res, !.i = 2, !.added = 1], q1, lock,
                             voice_clients[g].vc)
           b == AddBatch(q, res, 1, 0, tk.start_idx, nextCb)
       IN IF first
          THEN /\ Put(g, r.mq)
               /\ lock' = r.lock
               /\ tasks' = SetTask(t, r.task)
          ELSE /\ Put(g, EndProcess(tk, FinishBatch(b.q, tk.end_idx)))
               /\ lock' = lock
               /\ tasks' = SetTask(t, Free)
    /\ UNCHANGED <<voice_clients, budget>>
    /\ GFrame

GPpGatheredAny(t) ==
    \E res \in [1..(tasks[t].end_idx - tasks[t].start_idx) -> BOOLEAN] : GPpGathered(t, res)

\* play_next has returned to process_playlist, as PpRest
GPpRest(t) ==
    /\ tasks[t].pc = "pp_rest"
    /\ LET tk == tasks[t]
           g == tk.guild
           b == AddBatch(GQ(g), tk.res, tk.i, tk.added, tk.start_idx, nextCb)
       IN Put(g, EndProcess(tk, FinishBatch(b.q, tk.end_idx)))
    /\ tasks' = SetTask(t, Free)
    /\ UNCHANGED <<lock, voice_clients, budget>>
    /\ GFrame

GNext ==
    \/ \E t \in TaskIds, g \in Guilds, kind \in {"play", "playnow"} : GIssueTrackCmd(t, g, kind)
    \/ \E t \in TaskIds, ok \in BOOLEAN : GPtResolved(t, ok)
    \/ \E t \in TaskIds : GCmdSent(t)
    \/ \E t \in TaskIds : GPnGranted(t)
    \/ \E t \in TaskIds : GPnReconnectFailed(t)
    \/ \E t \in TaskIds, ok \in BOOLEAN : GPnConstructed(t, ok)
    \/ \E t \in TaskIds : GPnRetry(t)
    \/ \E g \in Guilds, err \in BOOLEAN : GTrackEnds(g, err)
    \/ \E t \in TaskIds, g \in Guilds : GHandlerStart(t, g)
    \/ \E t \in TaskIds : GHandlerGranted(t)
    \/ \E t \in TaskIds, sent \in BOOLEAN : GHNotified(t, sent)
    \/ \E t \in TaskIds, g \in Guilds : GIssueStop(t, g)
    \/ \E t \in TaskIds : GStopGranted(t)
    \/ \E t \in TaskIds : GCmdDone(t)
    \/ \E t \in TaskIds, g \in Guilds : GLeave(t, g)
    \/ \E t \in TaskIds, g \in Guilds, amount \in SkipAmounts : GSkip(t, g, amount)
    \/ \E t \in TaskIds, g \in Guilds : GIssuePlaylist(t, g)
    \/ \E t \in TaskIds, n \in 1..MaxEntries : GPpInfo(t, n)
    \/ \E t \in TaskIds : GPpGatheredAny(t)
    \/ \E t \in TaskIds : GPpRest(t)

GSpec == Init /\ [][GNext]_vars

(***************************************************************************)
(* DSpec: one guild on which no player can be built.  YTDLSource.from_track *)
(* raises for every track, so play_next always ends in its except clause   *)
(* (lines 176-183); the message sent there is taken to be delivered.       *)
(***************************************************************************)
DNext ==
    \/ \E t \in TaskIds, kind \in {"play", "playnow"} : IssueTrackCmd(t, kind)
    \/ \E t \in TaskIds, ok \in BOOLEAN : PtResolved(t, ok)
    \/ \E t \in TaskIds : CmdSent(t)
    \/ \E t \in TaskIds : PnGranted(t)
    \/ \E t \in TaskIds : PnConstructed(t, FALSE)
    \/ \E t \in TaskIds : PnRetry(t)

DSpec == Init /\ [][DNext]_vars

\* every coroutine that can run does run
DFairSpec == Init /\ [][DNext]_vars /\ WF_vars(DNext)

(***************************************************************************)
(* PSpec: one guild whose voice connection can drop.  The voice client is  *)
(* "connected", "dropped" (ctx.voice_client exists, is_connected() False)  *)
(* or "none" (ctx.voice_client is None).  play_next then calls             *)
(* auto_reconnect(ctx.voice_client, ctx.author.voice.channel); a task in   *)
(* auto_reconnect keeps in `was` the voice client it was handed and in `i` *)
(* the attempts that have failed.                                          *)
(***************************************************************************)
\* auto_reconnect(voice_client, channel, attempts=5)
reconnect_attempts == 5

\* play_next lines 132-135 applied to the result r of entering play_next with
\* voice client v: av tells whether ctx.author.voice is set.  When it is None
\* the argument ctx.author.voice.channel raises, line 150 catches it and
\* play_next returns; else auto_reconnect starts with what it was handed.
ReconnectEntry(tk, q, v, av, r) ==
    IF r.task.pc # "pn_reconnect" THEN r
    ELSE IF av THEN [r EXCEPT !.task.i = 0, !.task.was = v]
    ELSE [mq |-> q, lock |-> Release(r.lock), task |-> Return(tk), spawn |-> 0]

\* !play with a single-track query: _ensure_voice_connection (lines 317-328)
\* connects only when ctx.voice_client is None
PIssuePlay(t) ==
    /\ budget > 0
    /\ FreeSlots # {} /\ t = Min(FreeSlots)
    /\ budget' = budget - 1
    /\ vc' = IF vc = "none" THEN "connected" ELSE vc
    /\ lock' = Acquire(lock, t)
    /\ tasks' = SetTask(t, NewTask("play", "pt_resolve"))
    /\ UNCHANGED <<mq, vcPlaying, vcTrack, completions, current_players>>
    /\ UNCHANGED qVars
    /\ UNCHANGED voice_clients
    /\ UNCHANGED lVars

\* play lines 415-420 after the confirmation is sent
PCmdSent(t, av) ==
    /\ tasks[t].pc = "cmd_send"
    /\ LET tk == tasks[t]
           r == ReconnectEntry(tk, mq, vc, av, CallPlayNext(t, tk, mq, lock, vc))
       IN IF ~tk.ssp
          THEN /\ tasks' = SetTask(t, Free)
               /\ UNCHANGED <<mq, lock>>
          ELSE /\ mq' = r.mq
               /\ lock' = r.lock
               /\ tasks' = SetTask(t, r.task)
    /\ UNCHANGED <<vc, vcPlaying, vcTrack, completions, budget, current_players>>
    /\ UNCHANGED qVars
    /\ UNCHANGED voice_clients
    /\ UNCHANGED lVars

\* play_next resumes with the lock it waited for
PPnGranted(t, av) ==
    /\ tasks[t].pc = "pn_wait"
    /\ lock.holder = t
    /\ LET r == ReconnectEntry(tasks[t], mq, vc, av,
                               PlayNextLocked(t, tasks[t], mq, lock, vc))
       IN /\ mq' = r.mq
          /\ lock' = r.lock
          /\ tasks' = SetTask(t, r.task)
    /\ UNCHANGED <<vc, vcPlaying, vcTrack, completions, budget, current_players>>
    /\ UNCHANGED qVars
    /\ UNCHANGED voice_clients
    /\ UNCHANGED lVars

\* play_next lines 181-183: play_next again after a failed construction
PPnRetry(t, av) ==
    /\ tasks[t].pc = "pn_retry"
    /\ LET r == ReconnectEntry(tasks[t], mq, vc, av,
                               CallPlayNext(t, tasks[t], mq, lock, vc))
       IN /\ mq' = r.mq
          /\ lock' = r.lock
          /\ tasks' = SetTask(t, r.task)
    /\ UNCHANGED <<vc, vcPlaying, vcTrack, completions, budget, current_players>>
    /\ UNCHANGED qVars
    /\ UNCHANGED voice_clients
    /\ UNCHANGED lVars

\* the voice connection is lost between two tracks
VoiceDrops ==
    /\ vc = "connected" /\ ~vcPlaying
    /\ vc' = "dropped"
    /\ UNCHANGED <<mq, lock, vcPlaying, vcTrack, completions, tasks, budget, current_players>>
    /\ UNCHANGED qVars
    /\ UNCHANGED voice_clients
    /\ UNCHANGED lVars

\* one attempt of auto_reconnect (ytdl_source_v2.py lines 150-158), made by t
\* inside play_next's lock.  Handed None, voice_client.is_connected() raises;
\* handed a voice client, the attempt finds it connected again or connects
\* (up), or channel.connect() raises.  A failed attempt sleeps a second; after
\* the last one auto_reconnect returns False and play_next calls leave.  After
\* a success play_next goes on with lines 140-148.
ReconnectAttempt(t, up) ==
    /\ tasks[t].pc = "pn_reconnect"
    /\ lock.holder = t
    /\ LET tk == tasks[t]
           r == PlayNextLocked(t, [tk EXCEPT !.i = 0, !.was = "none"], mq, lock, "connected")
       IN IF tk.was # "none" /\ up
          THEN /\ vc' = "connected"
               /\ mq' = r.mq
               /\ lock' = r.lock
               /\ tasks' = SetTask(t, r.task)
               /\ UNCHANGED <<vcPlaying, vcTrack, completions, budget, current_players>>
               /\ UNCHANGED qVars
               /\ UNCHANGED voice_clients
               /\ UNCHANGED lVars
          ELSE IF tk.i + 1 < reconnect_attempts
          THEN /\ tasks' = SetTask(t, [tk EXCEPT !.i = tk.i + 1])
               /\ UNCHANGED <<mq, lock, vc, vcPlaying, vcTrack, completions, budget, current_players>>
               /\ UNCHANGED qVars
               /\ UNCHANGED voice_clients
               /\ UNCHANGED lVars
          ELSE PnReconnectFailed(t)

PNext ==
    \/ \E t \in TaskIds : PIssuePlay(t)
    \/ \E t \in TaskIds, ok \in BOOLEAN : PtResolved(t, ok)
    \/ \E t \in TaskIds, av \in BOOLEAN : PCmdSent(t, av)
    \/ \E t \in TaskIds, av \in BOOLEAN : PPnGranted(t, av)
    \/ \E t \in TaskIds, ok \in BOOLEAN : PnConstructed(t, ok)
    \/ \E t \in TaskIds, av \in BOOLEAN : PPnRetry(t, av)
    \/ VoiceDrops
    \/ \E t \in TaskIds, up \in BOOLEAN : ReconnectAttempt(t, up)

PSpec == Init /\ [][PNext]_vars

(***************************************************************************)
(* Claims about the orchestrator                                           *)
(***************************************************************************)
\* t has just run stop() up to its final notification
StopStep(t) == tasks[t].pc # "stop_send" /\ tasks'[t].pc = "stop_send"

\* a task that is about to call play_next, or is inside it
PendingPlayNext(tk) ==
    \/ tk.pc \in {"pn_wait", "pn_reconnect", "pn_construct", "pn_retry", "h_wait", "h_notify"}
    \/ tk.pc = "cmd_send" /\ (tk.ssp \/ tk.kind = "playnow")
    \/ tk.pc = "pt_resolve" /\ tk.kind = "playnow"

\* what a stop() leaves behind
AfterStop(q, playing, players) ==
    /\ q.queue = <<>>
    /\ ~q.is_playing
    /\ q.current_track = None
    /\ ~q.playlist_loader.present
    /\ q.callbacks = {}
    /\ ~playing
    /\ players = {}

\* C1: in every reachable state, is_playing = False implies current_track = None.
C1_NotPlayingHasNoTrack == ~mq.is_playing => mq.current_track = None

\* C2: at most one play_next of the guild is between its dequeue and the
\* start of playback (constructing a player) at any instant.
C2_OneConstruction ==
    Cardinality({t \in TaskIds : tasks[t].pc = "pn_construct"}) <= 1

\* C3: whenever is_playing is True, the voice client is playing, or a
\* completion is waiting for its handler, or some task is about to run or is
\* running play_next; no error path leaves is_playing True with none of these.
C3_PlayingHasPlayerOrTransition ==
    mq.is_playing =>
        \/ vcPlaying
        \/ completions # <<>>
        \/ \E t \in TaskIds : PendingPlayNext(tasks[t])

\* C4: a player construction or a playlist-batch resolution that was in flight
\* when stop/leave cleared the queue has no effect when it completes: it
\* starts no playback, enqueues no track and sets no current track.
C4_StaleResultsDiscarded ==
    [][\A t \in TaskIds :
          /\ (tasks[t].stale /\ tasks[t].pc = "pn_construct" /\ tasks'[t].pc # "pn_construct")
                => ~(vcPlaying' /\ ~vcPlaying)
          /\ (tasks[t].stale /\ tasks[t].pc = "pp_gather" /\ tasks'[t].pc # "pp_gather")
                => /\ Len(mq'.queue) <= Len(mq.queue)
                   /\ mq'.current_track = mq.current_track
      ]_vars

\* nothing but t is in flight: no other coroutine, no completion to handle
Quiet(t) ==
    /\ completions = <<>>
    /\ \A u \in TaskIds \ {t} : tasks[u].pc = "free"

\* C5 as claimed: a stop() on an Idle tenant (nothing queued, nothing playing,
\* nothing in flight) changes no tenant state (queue, is_playing,
\* current_track, loader, player, transport) and reports "nothing playing".
C5_StopOnIdleChangesNothing ==
    [][\A t \in TaskIds : (StopStep(t) /\ tasks'[t].was = "idle" /\ Quiet(t)) =>
          /\ mq' = mq
          /\ vc' = vc /\ vcPlaying' = vcPlaying
          /\ current_players' = current_players
          /\ tasks'[t].rep = "nothing"
      ]_vars

\* C5 as amended: a stop() on an Idle tenant leaves the queue, is_playing,
\* current_track, the player and the transport unchanged, reports "nothing
\* playing" and leaves no playlist loader (it discards one that exists); every
\* stop() leaves the queue empty, is_playing False, current_track None, no
\* loader, no player and the transport not playing; and a stop() on a state
\* of that kind changes no tenant state at all and reports "nothing playing".
C5_StopIdempotent ==
    [][\A t \in TaskIds : StopStep(t) =>
          /\ tasks'[t].was = "idle" =>
                /\ mq' = [mq EXCEPT !.playlist_loader = NoLoader]
                /\ vc' = vc /\ vcPlaying' = vcPlaying
                /\ current_players' = current_players
                /\ tasks'[t].rep = "nothing"
          /\ AfterStop(mq', vcPlaying', current_players')
          /\ AfterStop(mq, vcPlaying, current_players) =>
                /\ mq' = mq
                /\ vc' = vc /\ vcPlaying' = vcPlaying
                /\ current_players' = current_players
                /\ tasks'[t].rep = "nothing"
      ]_vars

\* a stop() that stopped playback and a second one right behind it that found
\* the tenant idle, both still to send their message
C5_Witness ==
    \E t1, t2 \in TaskIds :
        /\ tasks[t1].pc = "stop_send" /\ tasks[t1].rep = "stopped"
        /\ tasks[t2].pc = "stop_send" /\ tasks[t2].rep = "nothing" /\ tasks[t2].was = "idle"
        /\ AfterStop(mq, vcPlaying, current_players)

\* C6: after a stop() issued while the tenant was Starting or Playing, the
\* queue is empty, is_playing is False, current_track is None, there is no
\* player, and the transport is stopped and disconnected.
C6_StopStopsEverything ==
    [][\A t \in TaskIds : (StopStep(t) /\ tasks'[t].was # "idle") =>
          /\ AfterStop(mq', vcPlaying', current_players')
          /\ vc' = "none"
      ]_vars

\* the stations of a !play that nothing disturbs, on an idle guild
PlayResolving(t) ==
    /\ tasks[t].kind = "play" /\ tasks[t].pc = "pt_resolve" /\ lock.holder = t
    /\ Quiet(t) /\ vc = "connected"
    /\ TenantState(mq, vcPlaying) = "idle"

PlayQueued(t) ==
    /\ tasks[t].kind = "play" /\ tasks[t].pc = "cmd_send"
    /\ Quiet(t) /\ vc = "connected"
    /\ TenantState(mq, vcPlaying) = "starting"
    /\ mq.is_playing /\ mq.current_track = None
    /\ mq.queue = <<QueueItem(PlayTrack, None)>>

PlayConstructing(t) ==
    /\ tasks[t].kind = "play" /\ tasks[t].pc = "pn_construct" /\ tasks[t].nt = PlayTrack
    /\ Quiet(t) /\ vc = "connected"
    /\ TenantState(mq, vcPlaying) = "starting"
    /\ mq.is_playing /\ mq.current_track = PlayTrack
    /\ mq.queue = <<>>

PlayPlaying ==
    /\ \A t \in TaskIds : tasks[t].pc = "free"
    /\ completions = <<>>
    /\ TenantState(mq, vcPlaying) = "playing"
    /\ mq.is_playing /\ mq.current_track = PlayTrack /\ vcTrack = PlayTrack
    /\ mq.queue = <<>>

TrackPlayingQueued ==
    /\ \A t \in TaskIds : tasks[t].pc = "free"
    /\ completions = <<>> /\ lock.holder = 0
    /\ vc = "connected" /\ vcPlaying
    /\ mq.is_playing /\ mq.queue # <<>>

TrackEnded ==
    /\ \A t \in TaskIds : tasks[t].pc = "free"
    /\ completions = <<FALSE>> /\ lock.holder = 0
    /\ vc = "connected" /\ ~vcPlaying
    /\ mq.is_playing /\ mq.queue # <<>>

NextConstructing(t) ==
    /\ tasks[t].kind = "handler" /\ tasks[t].pc = "pn_construct" /\ ~tasks[t].err
    /\ Quiet(t) /\ vc = "connected" /\ ~vcPlaying
    /\ mq.is_playing /\ mq.current_track = tasks[t].nt /\ tasks[t].nt # None

\* C12: when a track ends without error and the queue is not empty, the
\* completion handler dequeues the head of the queue, play_next constructs
\* its player and starts it, and is_playing is True in every state from the
\* end of the first track to the start of the second.
C12_NextTrackFollows ==
    [][/\ (TrackPlayingQueued /\ completions' = <<FALSE>> /\ UNCHANGED <<tasks, budget>>)
            => TrackEnded'
       /\ \A t \in TaskIds :
            /\ (TrackEnded /\ tasks'[t].kind = "handler") =>
                  /\ NextConstructing(t)'
                  /\ tasks'[t].nt = Head(mq.queue).track
                  /\ mq'.queue = Tail(mq.queue)
            /\ (NextConstructing(t) /\ tasks'[t].pc = "free") =>
                  /\ vcPlaying' /\ vcTrack' = tasks[t].nt
                  /\ mq' = mq
      ]_vars

\* the handler of a track that ended without error has dequeued the next one
C12_Witness == \E t \in TaskIds : NextConstructing(t)

\* t has just run !skip up to the message it sends
SkipStep(t) == tasks[t].pc # "skip_send" /\ tasks'[t].pc = "skip_send"

\* C13: a !skip n on a guild that is playing with more than n queued items
\* removes exactly the first n items of the queue and stops the current
\* track, so that the item that was (n+1)-th is the next one played.
C13_SkipDiscards ==
    [][\A t \in TaskIds :
          (/\ SkipStep(t)
           /\ IsInt(tasks'[t].amount) /\ ToInt(tasks'[t].amount) >= 1
           /\ mq.is_playing /\ vcPlaying
           /\ Len(mq.queue) > ToInt(tasks'[t].amount))
          => /\ mq'.queue = SubSeq(mq.queue, ToInt(tasks'[t].amount) + 1, Len(mq.queue))
             /\ ~vcPlaying'
             /\ completions' = Append(completions, FALSE)
      ]_vars

\* C14: a !skip on a guild whose is_playing is False, or with an amount that
\* is not an integer or is below 1, answers with the matching error message
\* and leaves the queue, current_track, is_playing and the voice client as
\* they were.
C14_BadSkipChangesNothing ==
    [][\A t \in TaskIds :
          (/\ SkipStep(t)
           /\ \/ ~IsInt(tasks'[t].amount)
              \/ ToInt(tasks'[t].amount) < 1
              \/ ~mq.is_playing)
          => /\ tasks'[t].rep = (IF ~IsInt(tasks'[t].amount) THEN "invalid_number"
                                 ELSE IF ToInt(tasks'[t].amount) < 1 THEN "not_positive"
                                 ELSE "nothing")
             /\ mq' = mq
             /\ UNCHANGED <<vc, vcPlaying, vcTrack, completions, current_players>>
      ]_vars

\* a !skip 1 that found is_playing False
C14_Witness ==
    \E t \in TaskIds :
        /\ tasks[t].pc = "skip_send" /\ tasks[t].amount = "1"
        /\ tasks[t].rep = "nothing" /\ ~mq.is_playing

\* C15: when get_playlist_info yields no entries (or raises), process_playlist
\* does not go on to a batch: it creates no loader, leaves playlist_processing,
\* the queue, current_track, is_playing and the voice client as they were,
\* and sends a failure message.
C15_EmptyPlaylistRejected ==
    [][\A t \in TaskIds :
          (tasks[t].pc = "pp_info" /\ tasks'[t].pc \notin {"pp_info", "pp_gather"})
          => /\ tasks'[t].pc = "pp_fail_send"
             /\ tasks'[t].rep = "playlist_failed"
             /\ mq' = mq
             /\ UNCHANGED <<vc, vcPlaying, vcTrack, completions, current_players>>
      ]_vars

\* a playlist command on a fresh guild is about to report that it found nothing
C15_Witness ==
    \E t \in TaskIds :
        /\ tasks[t].pc = "pp_fail_send" /\ tasks[t].rep = "playlist_failed"
        /\ ~mq.playlist_loader.present /\ ~mq.playlist_processing

(***************************************************************************)
(* Claims about playlist ingestion                                         *)
(***************************************************************************)
\* entry k of the playlist resolved: extract_video_info returned its info
Resolved(k) == extract_video_info(attempts[k], 1, 0)

\* the tracks of the resolved entries among the first k, in playlist order
RECURSIVE ResolvedTracks(_)
ResolvedTracks(k) ==
    IF k = 0 THEN <<>>
    ELSE IF Resolved(k) THEN Append(ResolvedTracks(k - 1), PlaylistTrack(k))
    ELSE ResolvedTracks(k - 1)

LoaderComplete ==
    /\ mq.playlist_loader.present
    /\ mq.playlist_loader.current_index = Len(mq.playlist_loader.video_entries)

\* C16: a playlist entry whose resolution fails on its first two attempts and
\* would succeed on the third has its track appended to the queue once the
\* loader has gone past it.
C16_ThirdAttemptEnqueues ==
    \A k \in 1..Len(attempts) :
        (/\ attempts[k] = <<"error", "error", "info">>
         /\ mq.playlist_loader.present
         /\ k <= mq.playlist_loader.current_index)
        => \E j \in 1..Len(received) : received[j] = PlaylistTrack(k)

\* C17: once the cursor of the loader has reached the end of the playlist
\* (up to MaxPlaylist = 25 entries, batches of 10), the tracks the queue got
\* from the playlist are exactly those of the entries that resolved, each
\* once, in playlist order.
C17_PlaylistOrder ==
    LoaderComplete =>
        /\ Len(attempts) = Len(mq.playlist_loader.video_entries)
        /\ received = ResolvedTracks(Len(attempts))

\* the longest playlist has gone through its three batches, with entries
\* that resolved in each batch and one that did not
C17_Witness ==
    /\ LoaderComplete
    /\ Len(mq.playlist_loader.video_entries) = MaxPlaylist
    /\ Len(received) > 2 * BatchSize
    /\ \E k \in 1..Len(attempts) : ~Resolved(k)

\* a full batch has been applied, every entry of it failed, and entries remain
AllFailedBatch ==
    /\ mq.playlist_loader.present
    /\ mq.playlist_loader.current_index >= BatchSize
    /\ mq.playlist_loader.current_index < Len(mq.playlist_loader.video_entries)
    /\ Len(attempts) = mq.playlist_loader.current_index
    /\ \A k \in (mq.playlist_loader.current_index - BatchSize + 1)..mq.playlist_loader.current_index :
          ~Resolved(k)

\* C18: after a batch in which every entry failed while entries remain, the
\* cursor of the loader eventually reaches the end of the playlist.
C18_NoPermanentStall == AllFailedBatch ~> LoaderComplete

\* a step that creates a loader (start_playlist_loading, line 205)
CreatesLoader ==
    \E t \in TaskIds : tasks[t].pc = "pp_info" /\ tasks'[t].pc = "pp_gather"

\* C19: while a loader exists its cursor lies between 0 and the number of
\* entries, the loader is complete exactly when the cursor equals that
\* number, and no step on the same loader lowers the cursor.
C19_CursorInRange ==
    [][LET ld == mq'.playlist_loader
       IN /\ ld.present =>
               /\ 0 <= ld.current_index
               /\ ld.current_index <= Len(ld.video_entries)
               /\ is_playlist_complete(mq') <=> ld.current_index = Len(ld.video_entries)
          /\ (mq.playlist_loader.present /\ ld.present /\ ~CreatesLoader) =>
               ld.current_index >= mq.playlist_loader.current_index
      ]_vars

\* C20: no coroutine holds Music._lock while it awaits a media resolution
\* (process_url), a voice reconnection (auto_reconnect) or the construction
\* of a player (YTDLSource.from_track).
C20_NoNetworkUnderLock ==
    \A t \in TaskIds :
        lock.holder = t => tasks[t].pc \notin {"pt_resolve", "pn_reconnect", "pn_construct"}

\* C25: the resolution of a playlist entry makes at least one and at most
\* max_tries attempts, whatever the attempts do (return the info, return
\* nothing, raise, time out), and returns the info exactly when the last
\* attempt it made returned it.
C25_BoundedAttempts ==
    \A k \in 1..Len(attempts) :
        LET r == extract_video_info_run(attempts[k], 1, 0, 0)
        IN /\ r.attempts \in 1..max_tries
           /\ r.info <=> attempts[k][r.attempts] = "info"

\* an entry of an applied batch was given up after max_tries attempts that
\* timed out, although a further attempt would have returned the info
C25_Witness ==
    \E k \in 1..Len(attempts) :
        /\ attempts[k] = <<"timeout", "timeout", "info">>
        /\ extract_video_info_run(attempts[k], 1, 0, 0) = [info |-> FALSE, attempts |-> max_tries]
        /\ mq.playlist_loader.present
        /\ k <= mq.playlist_loader.current_index

\* the tracks of the entries among the first k that resolved, given what the
\* attempts att did
RECURSIVE ResolvedOf(_, _)
ResolvedOf(att, k) ==
    IF k = 0 THEN <<>>
    ELSE IF extract_video_info(att[k], 1, 0) THEN Append(ResolvedOf(att, k - 1), PlaylistTrack(k))
    ELSE ResolvedOf(att, k - 1)

\* a step in which process_playlist returns after applying a batch
BatchReturns(t) ==
    /\ tasks[t].kind \in {"playlist", "lnb"}
    /\ tasks[t].pc \in {"pp_gather", "pp_rest"}
    /\ tasks'[t].pc = "free"

NonFinalBatchApplied(c) ==
    /\ mq.playlist_loader.present
    /\ mq.playlist_loader.current_index = c
    /\ c < Len(mq.playlist_loader.video_entries)
    /\ Len(attempts) = c
    /\ \E k \in (c - BatchSize + 1)..c : Resolved(k)

\* the batch after the one ending at entry c is being loaded or was loaded
NextBatchLoading(c) ==
    \/ mq.playlist_loader.current_index > c
    \/ \E t \in TaskIds : tasks[t].kind = "lnb" /\ tasks[t].pc = "pp_gather"

\* every track the queue received has been promoted to current_track, and
\* the last of them is being played
PlayedThrough == received # <<>> /\ mq.queue = <<>> /\ vcPlaying

\* C27: once the tracks of a batch that is not the last, and in which some
\* entry resolved, have all been taken from the queue and the last of them is
\* being played, the loading of the next batch eventually starts.
C27_NextBatchTriggered ==
    \A c \in {BatchSize, 2 * BatchSize} :
        (NonFinalBatchApplied(c) /\ PlayedThrough) ~> NextBatchLoading(c)

\* the playlist entry a track of the playlist was made from
EntryOf(track) == track - 2

\* the last entry before the batch of entry k
BatchStart(k) == ((k - 1) \div BatchSize) * BatchSize

\* how many entries of the batch of entry k resolved, up to entry k
AddedUpTo(att, k) ==
    Cardinality({j \in (BatchStart(k) + 1)..k : extract_video_info(att[j], 1, 0)})

\* the positions of the queue items that carry a callback
Lookaheads(q) == {i \in 1..Len(q.queue) : q.queue[i].callback_id # None}

\* every item with a callback is the ninth entry of its batch that resolved,
\* and is the only such item of its batch
LookaheadOnNinth(q, att) ==
    \A i \in Lookaheads(q) :
        LET k == EntryOf(q.queue[i].track)
        IN /\ AddedUpTo(att, k) = LookaheadAt + 1
           /\ q.queue[i].callback_id \in q.callbacks
           /\ \A j \in Lookaheads(q) :
                 BatchStart(EntryOf(q.queue[j].track)) = BatchStart(k) => j = i

\* no item with a callback comes from the last batch of the playlist
LookaheadOutsideLastBatch(q) ==
    \A i \in Lookaheads(q) :
        BatchStart(EntryOf(q.queue[i].track)) + BatchSize < Len(q.playlist_loader.video_entries)

\* a step that promotes the head of the queue, an item with a callback
PromotesLookahead ==
    /\ mq.queue # <<>>
    /\ Head(mq.queue).callback_id # None
    /\ mq'.queue = Tail(mq.queue)
    /\ mq'.current_track = Head(mq.queue).track

\* what every step does about the callback of the ninth entry: where it is,
\* that a returning batch with nine resolved entries has attached it, that
\* promoting its item schedules load_next_batch and nothing else does, and
\* that load_next_batch starts the next batch exactly when the playlist is
\* not complete and no load_next_batch is loading
LookaheadStep ==
    /\ LookaheadOnNinth(mq', attempts')
    /\ \A t \in TaskIds :
          BatchReturns(t) =>
              \A k \in (mq.playlist_loader.current_index + 1)..mq'.playlist_loader.current_index :
                  (extract_video_info(attempts'[k], 1, 0) /\ AddedUpTo(attempts', k) = LookaheadAt + 1)
                  => \E i \in Lookaheads(mq') : EntryOf(mq'.queue[i].track) = k
    /\ PromotesLookahead <=> scheduled' = scheduled + 1
    /\ scheduled' = scheduled - 1 =>
          IF ~is_playlist_complete(mq) /\ ~mq.playlist_loader.is_loading
          THEN \E t \in TaskIds :
                  /\ tasks[t].pc = "free"
                  /\ tasks'[t].kind = "lnb" /\ tasks'[t].pc = "pp_gather"
                  /\ tasks'[t].start_idx = mq.playlist_loader.current_index
                  /\ mq'.playlist_loader.is_loading
          ELSE mq' = mq /\ tasks' = tasks

C21_MutationUnderLock ==
    [][(mq' # mq /\ lock.holder # 0) => tasks'[lock.holder] # tasks[lock.holder]]_vars

\* C22: a coroutine of one guild never waits for a lock that a coroutine of
\* another guild holds: every waiter of Music._lock belongs to the guild of
\* its holder.
C22_NoCrossTenantBlocking ==
    lock.holder # 0 =>
        \A i \in 1..Len(lock.waiters) :
            tasks[lock.waiters[i]].guild = tasks[lock.holder].guild

\* the step is taken by a coroutine of guild g (a command, a play_next or a
\* completion handler that starts, goes on or returns) or by g's voice client
StepOf(g) ==
    \/ voice_clients'[g] # voice_clients[g]
    \/ \E t \in TaskIds :
          /\ tasks'[t] # tasks[t]
          /\ g = IF tasks[t].pc # "free" THEN tasks[t].guild ELSE tasks'[t].guild

\* C23: a step that changes the registry is the step of one guild, and it
\* leaves the registry entry of every other guild (its MusicQueue: items,
\* current_track, is_playing, playlist loader, callbacks) unchanged.
C23_TenantFrame ==
    [][\/ queues' = queues
       \/ \E g \in Guilds :
             /\ StepOf(g)
             /\ \A h \in Guilds \ {g} : queues'[h] = queues[h]
      ]_vars

\* a stop of one guild has cleared its queue while the other guild plays a
\* track with another one waiting in its queue
C23_Witness ==
    \E t \in TaskIds, h \in Guilds :
        /\ tasks[t].pc = "stop_send" /\ tasks[t].guild # h
        /\ queues[tasks[t].guild].id # 0
        /\ voice_clients[h].playing
        /\ queues[h].q.is_playing
        /\ queues[h].q.current_track # None
        /\ queues[h].q.queue # <<>>

\* C24: whether the error message of the completion handler is delivered or
\* not, the handler leaves the same queue, is_playing and current_track and
\* takes the same decision about play_next as when the message is delivered.
C24_NotifyFailureHarmless ==
    [][\A t \in TaskIds :
          (tasks[t].pc = "h_notify" /\ tasks'[t].pc # "h_notify") =>
              /\ mq' = HandlerDecide(t, tasks[t], mq, lock, vc).mq
              /\ tasks'[t] = HandlerDecide(t, tasks[t], mq, lock, vc).task
      ]_vars

\* the coroutines that are loading a batch: between the gather of
\* process_playlist and its return
BatchLoaders ==
    {t \in TaskIds : /\ tasks[t].kind \in {"playlist", "lnb"}
                     /\ tasks[t].pc \notin {"free", "pp_info", "pp_fail_send"}}

\* C29: when the first batch of a playlist is applied on an idle guild and
\* enqueues anything, process_playlist sets is_playing and calls play_next
\* right after the first track is enqueued, before the rest of the batch is.
C29_FirstBatchStartsPlayback ==
    [][\A t \in TaskIds :
          (/\ tasks[t].pc = "pp_gather" /\ tasks[t].start_idx = 0
           /\ Quiet(t) /\ Idle(mq, vcPlaying) /\ vc = "connected"
           /\ tasks'[t].pc # "pp_gather"
           /\ received' # received)
          => /\ mq'.is_playing
             /\ tasks'[t].pc = "pn_construct"
             /\ Len(received') = Len(received) + 1
      ]_vars

\* C30: at most one coroutine of the guild is loading a batch at any time,
\* and no track of the playlist is appended to the queue twice.
C30_OneBatchNoDuplicates ==
    /\ Cardinality(BatchLoaders) <= 1
    /\ \A i, j \in 1..Len(received) : i # j => received[i] # received[j]

(***************************************************************************)
(* Claims about playback                                                   *)
(***************************************************************************)
\* the step of the player thread: the track ends and after_playing runs
AfterPlayingStep ==
    /\ vcPlaying /\ ~vcPlaying'
    /\ Len(completions') = Len(completions) + 1
    /\ UNCHANGED <<tasks, budget>>

\* a step of the completion handler t in which it changes the MusicQueue
\* before any play_next: it starts, is granted the lock or has sent its message
HandlerWrites(t) ==
    /\ \/ tasks[t].pc \in {"h_wait", "h_notify"} /\ tasks'[t].pc # tasks[t].pc
       \/ tasks[t].pc = "free" /\ completions # <<>> /\ completions' = Tail(completions)
                               /\ t = Min(FreeSlots)
    /\ mq' # mq

\* C33: the step of the player thread (after_playing) leaves the MusicQueue
\* and the state lock untouched and only hands the completion to the loop;
\* the completion handler changes the MusicQueue only in a step in which no
\* other coroutine holds Music._lock.
C33_CallbackHandsOff ==
    [][/\ AfterPlayingStep => /\ mq' = mq
                              /\ lock' = lock
                              /\ SubSeq(completions', 1, Len(completions)) = completions
       /\ \A t \in TaskIds : HandlerWrites(t) => lock.holder \in {0, t}
      ]_vars

\* a track has ended, its completion waits for the loop, and the MusicQueue
\* still says that the track is playing
C33_Witness ==
    /\ completions # <<>>
    /\ ~vcPlaying
    /\ mq.is_playing
    /\ mq.current_track # None
    /\ mq.queue # <<>>

\* a step in which the completion handler t decides about play_next (lines
\* 104-119): it starts with the lock free and no error to report, or it is
\* granted the lock with no error to report, or its error message is through
HandlerDecides(t) ==
    \/ /\ tasks[t].pc = "free" /\ t = Min(FreeSlots)
       /\ completions # <<>> /\ completions' = Tail(completions)
       /\ lock.holder = 0 /\ ~Head(completions)
    \/ tasks[t].pc = "h_wait" /\ lock.holder = t /\ ~tasks[t].err /\ tasks'[t].pc # "h_wait"
    \/ tasks[t].pc = "h_notify" /\ tasks'[t].pc # "h_notify"

\* C34: the completion handler goes on with play_next exactly when the queue
\* is not empty, and then with the lock released; with an empty queue it sets
\* is_playing False and current_track None and calls nothing.
C34_HandlerContinues ==
    [][\A t \in TaskIds :
          HandlerDecides(t) =>
              IF mq.queue # <<>>
              THEN /\ tasks'[t].pc \in {"pn_wait", "pn_construct", "pn_reconnect"}
                   /\ tasks'[t].pc = "pn_wait" => lock'.holder # t
              ELSE /\ ~mq'.is_playing
                   /\ mq'.current_track = None
                   /\ tasks'[t].pc = "free"
      ]_vars

\* !play or !playnow
EnqueueKinds == {"play", "playnow"}

\* two enqueue commands, the only commands issued so far, race on a guild that
\* was Idle: u found is_playing False and set it, t found it True and is about
\* to go on after its confirmation message; nothing is playing yet
Racing(t, u) ==
    /\ t # u
    /\ budget = MaxCmds - 2
    /\ tasks[t].kind \in EnqueueKinds /\ tasks[u].kind \in EnqueueKinds
    /\ tasks[u].pc # "free" /\ tasks[u].ssp
    /\ tasks[t].pc = "cmd_send" /\ ~tasks[t].ssp
    /\ ~vcPlaying /\ completions = <<>>

\* C35: of two enqueue commands racing on an Idle guild, the one that did not
\* find is_playing False only appended its track: after its confirmation it
\* returns without calling play_next and without touching the MusicQueue.
C35_OneStarter ==
    [][\A t, u \in TaskIds :
          (Racing(t, u) /\ tasks'[t] # tasks[t]) =>
              /\ tasks'[t].pc = "free"
              /\ mq' = mq
      ]_vars

\* a step in which _process_track has enqueued the track of command t
EnqueueStep(t) == tasks[t].pc = "pt_resolve" /\ tasks'[t].pc = "cmd_send"

\* a step in which play_next, called by t, takes a track from the queue
DequeueStep(t) ==
    /\ tasks'[t].pc = "pn_construct"
    /\ tasks[t].pc \notin {"pn_construct", "pp_gather"}

\* C36: !playnow puts its track at index 0 and keeps the items that were
\* queued in their order behind it, so that its track is the head; !play
\* appends its track behind them; play_next takes the head of the queue and
\* leaves the rest in order.
C36_InsertAtHead ==
    [][\A t \in TaskIds :
          /\ (EnqueueStep(t) /\ tasks[t].kind = "playnow") =>
                mq'.queue = <<QueueItem(PlayNowTrack, None)>> \o mq.queue
          /\ (EnqueueStep(t) /\ tasks[t].kind = "play") =>
                mq'.queue = mq.queue \o <<QueueItem(PlayTrack, None)>>
          /\ DequeueStep(t) =>
                /\ mq.queue # <<>>
                /\ tasks'[t].nt = Head(mq.queue).track
                /\ mq'.current_track = Head(mq.queue).track
                /\ mq'.queue = Tail(mq.queue)
      ]_vars

\* a !playnow has put its track in front of a track that !play had queued
C36_Witness ==
    \E t \in TaskIds :
        /\ tasks[t].kind = "playnow" /\ tasks[t].pc = "cmd_send"
        /\ mq.queue = <<QueueItem(PlayNowTrack, None), QueueItem(PlayTrack, None)>>

\* C39: play_next takes a track from the queue only while the voice client is
\* not playing another track.
C39_NoDrainWhilePlaying ==
    [][\A t \in TaskIds :
          (tasks'[t].pc = "pn_construct" /\ tasks[t].pc # "pn_construct") => ~vcPlaying
      ]_vars

\* C37: playlist_processing is True only while a loader exists and its cursor
\* has not reached the end of the playlist; in particular it is False once
\* clear has discarded the loader.
C37_ProcessingHasLoader ==
    mq.playlist_processing =>
        /\ mq.playlist_loader.present
        /\ ~is_playlist_complete(mq)

\* a user issues !play with a playlist URL
PlaylistCmdStep ==
    /\ budget' = budget - 1
    /\ vc' = "connected"
    /\ \A t \in TaskIds : tasks'[t] # tasks[t] => tasks'[t].kind = "playlist"

\* C38: a playlist command issued when the previous playlist of the guild has
\* been loaded to its end goes on to get the entries of its own playlist
\* (get_playlist_info), from which it creates a new loader.
C38_NewPlaylistNewLoader ==
    [][(PlaylistCmdStep /\ LoaderComplete) =>
          \E t \in TaskIds : tasks[t].pc = "free" /\ tasks'[t].pc = "pp_info"
      ]_vars

\* the construction of the player of the track t holds has failed
ConstructFailStep(t) == tasks[t].pc = "pn_construct" /\ tasks'[t].pc = "pn_retry"

\* play_next, called again by t after a failure, runs under the lock
RetryRuns(t) ==
    \/ tasks[t].pc = "pn_retry" /\ lock.holder = 0 /\ tasks'[t].pc # "pn_retry"
    \/ tasks[t].pc = "pn_wait" /\ lock.holder = t /\ tasks'[t].pc # "pn_wait"

\* nothing is queued, held or pending any more
Drained ==
    /\ Idle(mq, vcPlaying)
    /\ \A t \in TaskIds : tasks[t].pc \notin {"pn_construct", "pn_retry", "pn_wait"}

FindsDisconnected(t) ==
    /\ vc # "connected"
    /\ \/ tasks[t].pc = "cmd_send" /\ tasks[t].ssp /\ lock.holder = 0
       \/ tasks[t].pc = "pn_retry" /\ lock.holder = 0
       \/ tasks[t].pc = "pn_wait" /\ lock.holder = t
    /\ tasks'[t].pc # tasks[t].pc

\* C32: when play_next finds the voice client disconnected it starts the
\* reconnection attempts, of which there are at most reconnect_attempts = 5,
\* or leaves is_playing False and current_track None; when the attempts end,
\* either one succeeded and play_next goes on with the head of the queue, or
\* all failed, no track was taken and is_playing is False and current_track None.
C32_ReconnectOrIdle ==
    [][\A t \in TaskIds :
          /\ FindsDisconnected(t) =>
                \/ tasks'[t].pc = "pn_reconnect" /\ mq' = mq
                \/ ~mq'.is_playing /\ mq'.current_track = None
          /\ tasks'[t].pc = "pn_reconnect" => tasks'[t].i < reconnect_attempts
          /\ (tasks[t].pc = "pn_reconnect" /\ tasks'[t].pc # "pn_reconnect") =>
                \/ /\ vc' = "connected"
                   /\ IF mq.queue # <<>>
                      THEN /\ tasks'[t].pc = "pn_construct"
                           /\ tasks'[t].nt = Head(mq.queue).track
                      ELSE ~mq'.is_playing /\ mq'.current_track = None
                \/ /\ tasks[t].i = reconnect_attempts - 1
                   /\ tasks'[t].nt = None
                   /\ ~mq'.is_playing /\ mq'.current_track = None
      ]_vars

\* the coroutines waiting for self._lock
Waiting == {lock.waiters[k] : k \in 1..Len(lock.waiters)}

\* C40: no coroutine waits for self._lock while it holds it or waits for it
\* twice, a coroutine that is not inside a handler neither holds nor waits,
\* no coroutine has taken a playback lock while holding self._lock, and
\* every coroutine that waits for self._lock gets it.
C40_NoLockDeadlock ==
    /\ [](/\ lock.holder \notin Waiting
          /\ \A j, k \in 1..Len(lock.waiters) : lock.waiters[j] = lock.waiters[k] => j = k
          /\ \A t \in TaskIds : tasks[t].pc = "free" => lock.holder # t /\ t \notin Waiting
          /\ \A t \in TaskIds : ~tasks[t].held_both)
    /\ \A t \in TaskIds : (t \in Waiting) ~> (lock.holder = t)

\* !stop waits for self._lock, which another coroutine holds across an await
C40_Witness ==
    \E t \in TaskIds :
        /\ tasks[t].pc = "stop_wait" /\ t \in Waiting
        /\ lock.holder \notin {0, t}

(***************************************************************************)
(* Claims about MusicQueue and QueueManager                                *)
(***************************************************************************)
QQ == queues[QGuild].q

\* C7: clear() leaves an empty item sequence, current_track None, is_playing
\* False, no playlist loader and no registered callback, invokes no callback
\* while doing so, and no callback whose item it removed is ever invoked later.
C7_ClearResets ==
    /\ [][ret'.op = "clear" =>
            /\ queues'[QGuild].q.queue = <<>>
            /\ queues'[QGuild].q.current_track = None
            /\ ~queues'[QGuild].q.is_playing
            /\ ~queues'[QGuild].q.playlist_loader.present
            /\ queues'[QGuild].q.callbacks = {}
            /\ fired' = fired]_vars
    /\ [](\A c \in clearedCb : fired[c] = 0)

C7_Witness ==
    /\ ret.op = "clear"
    /\ clearedCb # {}
    /\ QQ.queue = <<>>
    /\ ~QQ.is_playing

\* C8: the callback of a queue item has been invoked exactly once if the item
\* was dequeued by get_next_track, and not at all otherwise; in particular
\* never twice, and never when clear removed the item.
C8_CallbackOnce ==
    /\ \A c \in DOMAIN fired : fired[c] = IF c \in dequeuedCb THEN 1 ELSE 0
    /\ dequeuedCb \cap clearedCb = {}

C8_Witness ==
    /\ \E c \in dequeuedCb : fired[c] = 1
    /\ clearedCb # {}

\* C9: when the callback of the head item raises, get_next_track still removes
\* the item, returns its track and lets no exception out; play_next then has
\* that track as next_track and as current_track.
C9_CallbackFailureSwallowed ==
    [][(ret'.op \in {"get_next_track", "play_next"} /\ ret'.outcome = "raises"
        /\ ret'.invoked # None) =>
            /\ ~ret'.raised
            /\ QQ.queue # <<>>
            /\ ret'.track = Head(QQ.queue).track
            /\ queues'[QGuild].q.queue = Tail(QQ.queue)
            /\ ret'.op = "play_next" => queues'[QGuild].q.current_track = Head(QQ.queue).track
      ]_vars

C9_Witness ==
    /\ ret.op = "play_next"
    /\ ret.outcome = "raises"
    /\ ret.invoked # None
    /\ ret.track # None
    /\ QQ.current_track = ret.track

\* C10: get_queue returns the registered MusicQueue unchanged when the guild
\* has one and otherwise registers and returns a new, empty one whose identity
\* was never handed out before; remove_queue drops the guild's entry and is a
\* no-op for an unknown guild; clear keeps the entry of a registered guild.
C10_Registry ==
    /\ [][/\ ret'.op = "get_queue" =>
                IF queues[ret'.guild].id # 0
                THEN ret'.id = queues[ret'.guild].id /\ queues' = queues
                ELSE /\ ret'.id >= nextObj
                     /\ queues' = [queues EXCEPT ![ret'.guild] =
                                       [id |-> ret'.id, q |-> NewMusicQueue]]
          /\ ret'.op = "remove_queue" =>
                /\ queues' = [queues EXCEPT ![ret'.guild] = NoEntry]
                /\ queues[ret'.guild].id = 0 => queues' = queues
          /\ (ret'.op = "clear" /\ queues[ret'.guild].id # 0) =>
                queues'[ret'.guild].id = queues[ret'.guild].id
         ]_vars
    /\ [](\A g \in Guilds : /\ queues[g].id < nextObj
                            /\ \A h \in Guilds \ {g} :
                                 queues[g].id # 0 => queues[g].id # queues[h].id)

C10_Witness ==
    /\ ret.op = "get_queue"
    /\ ret.id = 3
    /\ queues[ret.guild] = [id |-> 3, q |-> NewMusicQueue]
    /\ \E h \in Guilds \ {ret.guild} : queues[h].id # 0 /\ queues[h].q.queue # <<>>

====
